---- MODULE Spec2Model ----
(***************************************************************************)
(* State-machine model of the geometry-solver kernel: the entity store     *)
(* with its constructors and cascading delete (state.ts), and the          *)
(* Levenberg-Marquardt constraint solver (solver.ts).                       *)
(*                                                                         *)
(* Representation.  An entity id `id_<n>` is the natural n.  A Map is a    *)
(* function whose domain is the set of its keys; ids are allocated in      *)
(* increasing order and never re-inserted, so Map iteration order is id    *)
(* order.  Point objects live on a heap (pheap: reference -> object) and   *)
(* state.points maps an id to a reference, because the solver writes       *)
(* point objects in place and validateConstraint's clone is only sound if  *)
(* the trial state holds other objects than the caller's.  Coordinates     *)
(* are integers of the model's length unit.                                *)
(***************************************************************************)
EXTENDS Integers, Sequences, FiniteSets, TLC

VARIABLES
    idCounter,      \* state.ts: let idCounter
    labelCounter,   \* state.ts: let labelCounter
    pheap,          \* the Point objects, by reference
    vheap,          \* the Variable objects, by reference
    state,          \* the GeometryState the host holds
    call,           \* the last API call: [op, args, ret]
    frame,          \* the activation of solve: where it is and its locals
    entry           \* state and heaps as they were when solve or
                    \* validateConstraint was called

storeVars == <<idCounter, labelCounter, pheap, state>>
solverVars == <<vheap, frame, entry>>
vars == <<idCounter, labelCounter, pheap, vheap, state, call, frame, entry>>

-----------------------------------------------------------------------------
(* Bounds of the model *)

\* ids allocated in one behaviour; constructors are called while fewer have
\* been allocated
MaxId == 5

\* null / undefined for ids and optional numeric fields
NULL == 0

\* where addPoint places points, in this order: three corners of a 6 x 8
\* rectangle, whose circumcircle is centred at (3,4) with radius 5
PointCoords == <<(<<0, 0>>), (<<0, 8>>), (<<6, 0>>)>>

\* construction angles (degrees), lengths and radii offered to the callers
Angles == {90}
Lengths == {6}
Radii == {5}

-----------------------------------------------------------------------------
(* Helpers for Maps and arrays *)

MapSet(m, k, v) == [x \in (DOMAIN m) \cup {k} |-> IF x = k THEN v ELSE m[x]]

MapDelete(m, k) == [x \in (DOMAIN m) \ {k} |-> m[x]]

Push(arr, v) == Append(arr, v)

Filter(arr, keep(_)) == SelectSeq(arr, keep)

\* `const v = ...` followed by the statements Body that read v
With(v, Body(_)) == Body(v)

Range(arr) == {arr[i] : i \in DOMAIN arr}

Abs(n) == IF n < 0 THEN -n ELSE n

\* floor of the square root
ISqrt(n) == CHOOSE k \in 0..n : k * k <= n /\ (k + 1) * (k + 1) > n

-----------------------------------------------------------------------------
(* The world an operation runs in: module counters, heap, and the state    *)
(* object it was handed.                                                   *)

World == [idCounter |-> idCounter, labelCounter |-> labelCounter,
          pheap |-> pheap, st |-> state]

\* the Point object state.points.get(id)
PointOf(w, id) == w.pheap[w.st.points[id]]

HasPoint(w, id) == id \in DOMAIN w.st.points

\* write field f of the point object that state.points.get(id) returns
PushChild(w, pid, cid) ==
    LET r == w.st.points[pid]
    IN  [w EXCEPT !.pheap[r].childrenIds = Push(@, cid)]

-----------------------------------------------------------------------------
(* state.ts *)

\* mutant: the suffix is dropped
getNextLabel_NoSuffix(k) == [letter |-> 65 + (k % 26), suffix |-> 0]

\* getNextLabel: the letter chr(65 + k % 26) and the suffix floor(k / 26),
\* which is printed only when > 0
getNextLabel(k) == [letter |-> 65 + (k % 26), suffix |-> k \div 26]

\* String(n) of a natural number, as character codes
RECURSIVE Decimal(_)
Decimal(n) == IF n < 10 THEN <<48 + n>> ELSE Decimal(n \div 10) \o <<48 + (n % 10)>>

\* `suffix > 0 ? label + suffix : label`, as character codes
LabelText(label) ==
    <<label.letter>> \o (IF label.suffix > 0 THEN Decimal(label.suffix) ELSE <<>>)

createInitialState ==
    [points |-> <<>>, segments |-> <<>>, circles |-> <<>>,
     selectedIds |-> <<>>, activeTool |-> "SELECT", measureHistory |-> <<>>,
     zoom |-> 1, offset |-> [x |-> 0, y |-> 0]]

\* addPoint: a new object under a new id; returns the world and the id
addPoint(w, x, y) ==
    LET id == w.idCounter + 1
        point == [id |-> id, x |-> x, y |-> y,
                  label |-> getNextLabel(w.labelCounter),
                  childrenIds |-> <<>>, isFloating |-> FALSE]
    IN  [w |-> [idCounter |-> id,
                labelCounter |-> w.labelCounter + 1,
                pheap |-> MapSet(w.pheap, id, point),
                st |-> [w.st EXCEPT !.points = MapSet(@, id, id)]],
         ret |-> id]

addSegmentTwoPoints(w, p1Id, p2Id) ==
    IF ~HasPoint(w, p1Id) \/ ~HasPoint(w, p2Id) THEN [w |-> w, ret |-> NULL]
    ELSE
    LET id == w.idCounter + 1
        segment == [id |-> id, p1 |-> p1Id, p2 |-> p2Id, type |-> "TWO_POINTS",
                    angle |-> NULL, length |-> NULL, refSegmentId |-> NULL,
                    childrenIds |-> <<>>]
        w1 == [w EXCEPT !.idCounter = id, !.st.segments = MapSet(@, id, segment)]
        w2 == PushChild(w1, p1Id, id)
        w3 == PushChild(w2, p2Id, id)
    IN  [w |-> w3, ret |-> id]

\* Math.cos / Math.sin of a degree angle, for the multiples of 90 degrees the
\* model constructs with (the double results differ from these by < 2e-16)
Norm360(a) == ((a % 360) + 360) % 360

CosDeg(a) == CASE Norm360(a) = 0 -> 1
               [] Norm360(a) = 90 -> 0
               [] Norm360(a) = 180 -> -1
               [] Norm360(a) = 270 -> 0

SinDeg(a) == CASE Norm360(a) = 0 -> 0
               [] Norm360(a) = 90 -> 1
               [] Norm360(a) = 180 -> 0
               [] Norm360(a) = 270 -> -1

\* Math.atan2(y, x) * 180 / Math.PI on the axis directions.  The callers
\* pass y = -(p2.y - p1.y), which is -0 when the ordinates are equal, and
\* atan2(-0, x) is -0 for x >= 0 and -PI for x < 0.
\* Off the axes the angle is interpolated within its octant.
Atan2Deg(y, x) ==
    CASE y = 0 /\ x >= 0 -> 0
      [] y = 0 /\ x < 0 -> -180
      [] x = 0 /\ y > 0 -> 90
      [] x = 0 /\ y < 0 -> -90
      [] OTHER ->
            LET ax == Abs(x)
                ay == Abs(y)
                acute == IF ay <= ax THEN (45 * ay) \div ax
                         ELSE 90 - (45 * ax) \div ay
                upper == IF x > 0 THEN acute ELSE 180 - acute
            IN  IF y > 0 THEN upper ELSE -upper

AxisParallel(w, segId) ==
    IF segId \notin DOMAIN w.st.segments THEN TRUE
    ELSE LET s == w.st.segments[segId]
         IN  IF ~HasPoint(w, s.p1) \/ ~HasPoint(w, s.p2) THEN TRUE
             ELSE \/ PointOf(w, s.p1).x = PointOf(w, s.p2).x
                  \/ PointOf(w, s.p1).y = PointOf(w, s.p2).y

\* getSegmentAngle: NULL is returned as the record's null flag
getSegmentAngle(w, segment) ==
    IF ~HasPoint(w, segment.p1) \/ ~HasPoint(w, segment.p2)
    THEN [null |-> TRUE, deg |-> 0]
    ELSE LET p1 == PointOf(w, segment.p1)
             p2 == PointOf(w, segment.p2)
         IN  [null |-> FALSE, deg |-> Atan2Deg(-(p2.y - p1.y), p2.x - p1.x)]

\* mutant: the segment's id is generated before the far endpoint is created
AngleSegment_EndpointLast(w, p1Id, x2, y2, type, angle, length, refSegmentId) ==
    LET id == w.idCounter + 1
        a == addPoint([w EXCEPT !.idCounter = id], x2, y2)
        segment == [id |-> id, p1 |-> p1Id, p2 |-> a.ret, type |-> type,
                    angle |-> angle, length |-> length,
                    refSegmentId |-> refSegmentId, childrenIds |-> <<>>]
        w1 == [a.w EXCEPT !.st.segments = MapSet(@, id, segment)]
        w2 == PushChild(w1, p1Id, id)
        w3 == PushChild(w2, a.ret, id)
        w4 == IF refSegmentId = NULL THEN w3
              ELSE [w3 EXCEPT !.st.segments[refSegmentId].childrenIds = Push(@, id)]
    IN  [w |-> w4, ret |-> id]

\* the tail shared by addSegmentAbsAngle and addSegmentRelAngle once the far
\* endpoint (x2, y2) is known: addPoint, generateId, set, push to the parents
AngleSegment(w, p1Id, x2, y2, type, angle, length, refSegmentId) ==
    LET a == addPoint(w, x2, y2)
        id == a.w.idCounter + 1
        segment == [id |-> id, p1 |-> p1Id, p2 |-> a.ret, type |-> type,
                    angle |-> angle, length |-> length,
                    refSegmentId |-> refSegmentId, childrenIds |-> <<>>]
        w1 == [a.w EXCEPT !.idCounter = id,
                          !.st.segments = MapSet(@, id, segment)]
        w2 == PushChild(w1, p1Id, id)
        w3 == PushChild(w2, a.ret, id)
        w4 == IF refSegmentId = NULL THEN w3
              ELSE [w3 EXCEPT !.st.segments[refSegmentId].childrenIds = Push(@, id)]
    IN  [w |-> w4, ret |-> id]

addSegmentAbsAngle(w, p1Id, angle, length) ==
    IF ~HasPoint(w, p1Id) THEN [w |-> w, ret |-> NULL]
    ELSE LET p1 == PointOf(w, p1Id)
             x2 == p1.x + length * CosDeg(angle)
             y2 == p1.y - length * SinDeg(angle)
         IN  AngleSegment(w, p1Id, x2, y2, "ABS_ANGLE", angle, length, NULL)

addSegmentRelAngle(w, p1Id, refSegmentId, relAngle, length) ==
    IF ~HasPoint(w, p1Id) \/ refSegmentId \notin DOMAIN w.st.segments
    THEN [w |-> w, ret |-> NULL]
    ELSE
    LET p1 == PointOf(w, p1Id)
        refAngle == getSegmentAngle(w, w.st.segments[refSegmentId])
    IN  IF refAngle.null THEN [w |-> w, ret |-> NULL]
        ELSE LET finalAngle == refAngle.deg + relAngle
                 x2 == p1.x + length * CosDeg(finalAngle)
                 y2 == p1.y - length * SinDeg(finalAngle)
             IN  AngleSegment(w, p1Id, x2, y2, "REL_ANGLE", relAngle, length,
                              refSegmentId)

addCircleRadius(w, centerId, radius) ==
    IF ~HasPoint(w, centerId) THEN [w |-> w, ret |-> NULL]
    ELSE
    LET id == w.idCounter + 1
        circle == [id |-> id, type |-> "RADIUS", centerId |-> centerId,
                   radius |-> radius, pointIds |-> <<>>, childrenIds |-> <<>>]
        w1 == [w EXCEPT !.idCounter = id, !.st.circles = MapSet(@, id, circle)]
    IN  [w |-> PushChild(w1, centerId, id), ret |-> id]

addCircleCircumference(w, centerId, circumPointId) ==
    IF ~HasPoint(w, centerId) \/ ~HasPoint(w, circumPointId)
    THEN [w |-> w, ret |-> NULL]
    ELSE
    LET center == PointOf(w, centerId)
        circumPoint == PointOf(w, circumPointId)
        radius == ISqrt((circumPoint.x - center.x) * (circumPoint.x - center.x)
                        + (circumPoint.y - center.y) * (circumPoint.y - center.y))
        id == w.idCounter + 1
        circle == [id |-> id, type |-> "RADIUS", centerId |-> centerId,
                   radius |-> radius, pointIds |-> <<circumPointId>>,
                   childrenIds |-> <<>>]
        w1 == [w EXCEPT !.idCounter = id, !.st.circles = MapSet(@, id, circle)]
        w2 == PushChild(w1, centerId, id)
    IN  [w |-> PushChild(w2, circumPointId, id), ret |-> id]

\* a / b rounded to the nearest integer of the length unit (b # 0)
RoundDiv(a, b) ==
    LET n == IF b < 0 THEN -a ELSE a
        d == Abs(b)
    IN  (2 * n + d) \div (2 * d)

\* calculateCircumcircle: nan stands for {cx: NaN, cy: NaN, r: NaN}; on
\* integer coordinates |d| < 1e-10 is d = 0
calculateCircumcircle(p1, p2, p3) ==
    LET ax == p1.x  ay == p1.y
        bx == p2.x  by == p2.y
        cx == p3.x  cy == p3.y
        d == 2 * (ax * (by - cy) + bx * (cy - ay) + cx * (ay - by))
    IN  IF d = 0 THEN [nan |-> TRUE, cx |-> 0, cy |-> 0, r |-> 0]
        ELSE
        LET ux == RoundDiv((ax * ax + ay * ay) * (by - cy)
                           + (bx * bx + by * by) * (cy - ay)
                           + (cx * cx + cy * cy) * (ay - by), d)
            uy == RoundDiv((ax * ax + ay * ay) * (cx - bx)
                           + (bx * bx + by * by) * (ax - cx)
                           + (cx * cx + cy * cy) * (bx - ax), d)
            r == ISqrt((ax - ux) * (ax - ux) + (ay - uy) * (ay - uy))
        IN  [nan |-> FALSE, cx |-> ux, cy |-> uy, r |-> r]

\* mutant: the circle is stored without a materialized center
addCircleThreePoints_NoCenter(w, p1Id, p2Id, p3Id) ==
    IF ~HasPoint(w, p1Id) \/ ~HasPoint(w, p2Id) \/ ~HasPoint(w, p3Id)
    THEN [w |-> w, ret |-> NULL]
    ELSE
    LET cc == calculateCircumcircle(PointOf(w, p1Id), PointOf(w, p2Id),
                                    PointOf(w, p3Id))
    IN  IF cc.nan THEN [w |-> w, ret |-> NULL]
        ELSE
        LET id == w.idCounter + 1
            circle == [id |-> id, type |-> "THREE_POINTS",
                       centerId |-> NULL, radius |-> cc.r,
                       pointIds |-> <<p1Id, p2Id, p3Id>>, childrenIds |-> <<>>]
            w1 == [w EXCEPT !.idCounter = id,
                            !.st.circles = MapSet(@, id, circle)]
            w2 == PushChild(w1, p1Id, id)
            w3 == PushChild(w2, p2Id, id)
        IN  [w |-> PushChild(w3, p3Id, id), ret |-> id]

\* mutant: the center point is created before the circumcircle is checked
addCircleThreePoints_EagerCenter(w, p1Id, p2Id, p3Id) ==
    IF ~HasPoint(w, p1Id) \/ ~HasPoint(w, p2Id) \/ ~HasPoint(w, p3Id)
    THEN [w |-> w, ret |-> NULL]
    ELSE
    LET cc == calculateCircumcircle(PointOf(w, p1Id), PointOf(w, p2Id),
                                    PointOf(w, p3Id))
        centerPoint == addPoint(w, cc.cx, cc.cy)
    IN  IF cc.nan THEN [w |-> centerPoint.w, ret |-> NULL]
        ELSE
        LET id == centerPoint.w.idCounter + 1
            circle == [id |-> id, type |-> "THREE_POINTS",
                       centerId |-> centerPoint.ret, radius |-> cc.r,
                       pointIds |-> <<p1Id, p2Id, p3Id>>, childrenIds |-> <<>>]
            w1 == [centerPoint.w EXCEPT !.idCounter = id,
                                        !.st.circles = MapSet(@, id, circle)]
            w2 == PushChild(w1, p1Id, id)
            w3 == PushChild(w2, p2Id, id)
            w4 == PushChild(w3, p3Id, id)
        IN  [w |-> PushChild(w4, centerPoint.ret, id), ret |-> id]

addCircleThreePoints(w, p1Id, p2Id, p3Id) ==
    IF ~HasPoint(w, p1Id) \/ ~HasPoint(w, p2Id) \/ ~HasPoint(w, p3Id)
    THEN [w |-> w, ret |-> NULL]
    ELSE
    LET cc == calculateCircumcircle(PointOf(w, p1Id), PointOf(w, p2Id),
                                    PointOf(w, p3Id))
    IN  IF cc.nan THEN [w |-> w, ret |-> NULL]
        ELSE
        LET centerPoint == addPoint(w, cc.cx, cc.cy)
            id == centerPoint.w.idCounter + 1
            circle == [id |-> id, type |-> "THREE_POINTS",
                       centerId |-> centerPoint.ret, radius |-> cc.r,
                       pointIds |-> <<p1Id, p2Id, p3Id>>, childrenIds |-> <<>>]
            w1 == [centerPoint.w EXCEPT !.idCounter = id,
                                        !.st.circles = MapSet(@, id, circle)]
            w2 == PushChild(w1, p1Id, id)
            w3 == PushChild(w2, p2Id, id)
            w4 == PushChild(w3, p3Id, id)
        IN  [w |-> PushChild(w4, centerPoint.ret, id), ret |-> id]

\* removeFromParentChildren: only a parent that is a point is looked up
removeFromParentChildren(w, parentId, childId) ==
    IF HasPoint(w, parentId)
    THEN LET r == w.st.points[parentId]
         IN  [w EXCEPT !.pheap[r].childrenIds =
                            Filter(@, LAMBDA c : c # childId)]
    ELSE w

RECURSIVE deleteEntity(_, _)
RECURSIVE ForEachDelete(_, _)
RECURSIVE ForEachRemove(_, _, _)

\* mutant: a point is removed without its children being deleted first
deleteEntity_NoCascade(w, id) ==
    IF id \in DOMAIN w.st.points THEN
        [w EXCEPT !.st.points = MapDelete(@, id)]
    ELSE IF id \in DOMAIN w.st.segments THEN
        LET segment == w.st.segments[id]
            w2 == removeFromParentChildren(w, segment.p1, id)
            w3 == removeFromParentChildren(w2, segment.p2, id)
        IN  [w3 EXCEPT !.st.segments = MapDelete(@, id)]
    ELSE IF id \in DOMAIN w.st.circles THEN
        [w EXCEPT !.st.circles = MapDelete(@, id)]
    ELSE w

\* [...childrenIds].forEach(childId => deleteEntity(state, childId))
ForEachDelete(w, snapshot) ==
    IF snapshot = <<>> THEN w
    ELSE ForEachDelete(deleteEntity(w, Head(snapshot)), Tail(snapshot))

\* circle.pointIds.forEach(pId => removeFromParentChildren(state, pId, id))
ForEachRemove(w, pointIds, id) ==
    IF pointIds = <<>> THEN w
    ELSE ForEachRemove(removeFromParentChildren(w, Head(pointIds), id),
                       Tail(pointIds), id)

deleteEntity(w, id) ==
    IF id \in DOMAIN w.st.points THEN
        LET w1 == ForEachDelete(w, PointOf(w, id).childrenIds)
        IN  [w1 EXCEPT !.st.points = MapDelete(@, id)]
    ELSE IF id \in DOMAIN w.st.segments THEN
        LET segment == w.st.segments[id]
            w1 == ForEachDelete(w, segment.childrenIds)
            w2 == removeFromParentChildren(w1, segment.p1, id)
            w3 == removeFromParentChildren(w2, segment.p2, id)
        IN  [w3 EXCEPT !.st.segments = MapDelete(@, id)]
    ELSE IF id \in DOMAIN w.st.circles THEN
        LET circle == w.st.circles[id]
            w1 == ForEachDelete(w, circle.childrenIds)
            w2 == IF circle.centerId # NULL
                  THEN removeFromParentChildren(w1, circle.centerId, id)
                  ELSE w1
            w3 == ForEachRemove(w2, circle.pointIds, id)
        IN  [w3 EXCEPT !.st.circles = MapDelete(@, id)]
    ELSE w

-----------------------------------------------------------------------------
(* Numbers.  A number is an integer of the model's unit; a magnitude of    *)
(* Huge or more stands for a double so large that adding or subtracting a   *)
(* model-sized number rounds back to it (in IEEE doubles x - 360 = x from  *)
(* |x| = 2^62 on, e.g. for 1e20).                                           *)

Huge == 30000

IsHuge(a) == a >= Huge \/ a <= -Huge

Sat(n) == IF n >= Huge THEN Huge ELSE IF n <= -Huge THEN -Huge ELSE n

Sign(a) == IF a < 0 THEN -1 ELSE IF a > 0 THEN 1 ELSE 0

FAdd(a, b) ==
    IF IsHuge(a) THEN (IF IsHuge(b) /\ Sign(a) # Sign(b) THEN 0 ELSE Sat(a))
    ELSE IF IsHuge(b) THEN Sat(b)
    ELSE Sat(a + b)

FSub(a, b) == FAdd(a, -b)

FMul(a, b) ==
    IF a = 0 \/ b = 0 THEN 0
    ELSE IF IsHuge(a) \/ IsHuge(b) THEN Sign(a) * Sign(b) * Huge
    ELSE Sat(a * b)

\* a / b for b # 0, rounded to the unit
FDiv(a, b) ==
    IF IsHuge(b) THEN (IF IsHuge(a) THEN Sign(a) * Sign(b) ELSE 0)
    ELSE IF IsHuge(a) THEN Sign(a) * Sign(b) * Huge
    ELSE RoundDiv(a, b)

\* Math.pow(a, b) for integral b >= 0: acc * a^b, cut short once acc is huge
RECURSIVE PowLoop(_, _, _)
PowLoop(acc, a, b) ==
    IF b = 0 \/ acc = 0 THEN acc
    ELSE IF IsHuge(acc) \/ IsHuge(b)
    THEN (IF Abs(a) <= 1 THEN FMul(acc, IF b % 2 = 0 THEN a * a ELSE a)
          ELSE FMul(acc, IF b % 2 = 0 THEN 1 ELSE Sign(a)))
    ELSE PowLoop(FMul(acc, a), a, b - 1)

\* Math.pow(a, b) for integral b
FPow(a, b) ==
    IF b >= 0 THEN PowLoop(1, a, b)
    ELSE IF PowLoop(1, a, -b) = 0 THEN Huge
    ELSE FDiv(1, PowLoop(1, a, -b))

\* Math.sqrt of a number >= 0
FSqrt(n) == IF IsHuge(n) THEN Huge ELSE ISqrt(n)

FSquare(a) == FMul(a, a)

-----------------------------------------------------------------------------
(* expression.ts.  A string is the sequence of its characters.  A thrown   *)
(* Error is the result [thrown |-> TRUE].                                   *)

Digits == <<"0", "1", "2", "3", "4", "5", "6", "7", "8", "9">>

DigitChars == Range(Digits)

\* /[0-9.]/
NumberChars == DigitChars \cup {"."}

\* /[a-zA-Z_]/
LetterChars ==
    {"a", "b", "c", "d", "e", "f", "g", "h", "i", "j", "k", "l", "m", "n",
     "o", "p", "q", "r", "s", "t", "u", "v", "w", "x", "y", "z",
     "A", "B", "C", "D", "E", "F", "G", "H", "I", "J", "K", "L", "M", "N",
     "O", "P", "Q", "R", "S", "T", "U", "V", "W", "X", "Y", "Z", "_"}

\* /[a-zA-Z0-9_]/
NameChars == LetterChars \cup DigitChars

\* /\s/
SpaceChars == {" "}

OperatorChars == {"+", "-", "*", "/", "^"}

\* the first index from i on whose character is not in chars
RECURSIVE ScanWhile(_, _, _)
ScanWhile(expr, i, chars) ==
    IF i <= Len(expr) /\ expr[i] \in chars THEN ScanWhile(expr, i + 1, chars)
    ELSE i

Token(type, value) == [type |-> type, value |-> value]

RECURSIVE tokenizeFrom(_, _, _)
tokenizeFrom(expr, i, tokens) ==
    IF i > Len(expr)
    THEN [thrown |-> FALSE, tokens |-> Push(tokens, Token("EOF", <<>>))]
    ELSE
    LET char == expr[i]
    IN  IF char \in SpaceChars THEN tokenizeFrom(expr, i + 1, tokens)
        ELSE IF char \in NumberChars THEN
            LET j == ScanWhile(expr, i, NumberChars)
            IN  tokenizeFrom(expr, j,
                    Push(tokens, Token("NUMBER", SubSeq(expr, i, j - 1))))
        ELSE IF char \in LetterChars THEN
            LET j == ScanWhile(expr, i, NameChars)
            IN  tokenizeFrom(expr, j,
                    Push(tokens, Token("VARIABLE", SubSeq(expr, i, j - 1))))
        ELSE IF char \in OperatorChars THEN
            tokenizeFrom(expr, i + 1, Push(tokens, Token("OPERATOR", <<char>>)))
        ELSE IF char = "(" THEN
            tokenizeFrom(expr, i + 1, Push(tokens, Token("LPAREN", <<char>>)))
        ELSE IF char = ")" THEN
            tokenizeFrom(expr, i + 1, Push(tokens, Token("RPAREN", <<char>>)))
        ELSE [thrown |-> TRUE, tokens |-> <<>>]

tokenize(expr) == tokenizeFrom(expr, 1, <<>>)

DigitValue(c) == (CHOOSE d \in DOMAIN Digits : Digits[d] = c) - 1

\* the value of a run of decimal digits
RECURSIVE DigitsValue(_)
DigitsValue(str) ==
    IF str = <<>> THEN 0
    ELSE FAdd(FMul(DigitsValue(SubSeq(str, 1, Len(str) - 1)), 10),
              DigitValue(str[Len(str)]))

\* parseFloat of a NUMBER token: the numeral is read up to its first ".";
\* numbers are whole units, so the numerals offered to the model carry no
\* fraction
parseFloat(str) == DigitsValue(SubSeq(str, 1, ScanWhile(str, 1, DigitChars) - 1))

\* Parser.  Each parse method takes the token array and this.pos and
\* returns the node and the new pos, or thrown.
Thrown == [thrown |-> TRUE, node |-> NULL, pos |-> NULL]

Parsed(node, pos) == [thrown |-> FALSE, node |-> node, pos |-> pos]

IsOperator(token, ops) == token.type = "OPERATOR" /\ token.value[1] \in ops

RECURSIVE parseAddExpr(_, _)
RECURSIVE parseAddLoop(_, _, _)
RECURSIVE parseMulExpr(_, _)
RECURSIVE parseMulLoop(_, _, _)
RECURSIVE parsePowExpr(_, _)
RECURSIVE parsePrimary(_, _)

parsePrimary(tokens, pos) ==
    LET token == tokens[pos]
    IN  IF token.type = "NUMBER"
        THEN Parsed([type |-> "number", value |-> parseFloat(token.value)],
                    pos + 1)
        ELSE IF token.type = "VARIABLE"
        THEN Parsed([type |-> "variable", name |-> token.value], pos + 1)
        ELSE IF token.type = "LPAREN" THEN
            With(parseAddExpr(tokens, pos + 1), LAMBDA expr :
                IF expr.thrown THEN Thrown
                ELSE IF tokens[expr.pos].type # "RPAREN" THEN Thrown
                ELSE Parsed(expr.node, expr.pos + 1))
        ELSE Thrown

parsePowExpr(tokens, pos) ==
    With(parsePrimary(tokens, pos), LAMBDA base :
        IF base.thrown THEN Thrown
        ELSE IF IsOperator(tokens[base.pos], {"^"}) THEN
            With(parsePowExpr(tokens, base.pos + 1), LAMBDA exp :
                IF exp.thrown THEN Thrown
                ELSE Parsed([type |-> "binary", op |-> "^",
                             left |-> base.node, right |-> exp.node], exp.pos))
        ELSE base)

\* mutant: '+' and '-' bind as tightly as '*' and '/'
RECURSIVE parseMulLoop_Flat(_, _, _)
parseMulLoop_Flat(tokens, left, pos) ==
    IF IsOperator(tokens[pos], {"*", "/", "+", "-"}) THEN
        With(parsePowExpr(tokens, pos + 1), LAMBDA right :
            IF right.thrown THEN Thrown
            ELSE parseMulLoop_Flat(tokens,
                     [type |-> "binary", op |-> tokens[pos].value[1],
                      left |-> left, right |-> right.node], right.pos))
    ELSE Parsed(left, pos)

\* the while loop of parseMulExpr, entered with left already parsed
parseMulLoop(tokens, left, pos) ==
    IF IsOperator(tokens[pos], {"*", "/"}) THEN
        With(parsePowExpr(tokens, pos + 1), LAMBDA right :
            IF right.thrown THEN Thrown
            ELSE parseMulLoop(tokens,
                     [type |-> "binary", op |-> tokens[pos].value[1],
                      left |-> left, right |-> right.node], right.pos))
    ELSE Parsed(left, pos)

parseMulExpr(tokens, pos) ==
    With(parsePowExpr(tokens, pos), LAMBDA left :
        IF left.thrown THEN Thrown
        ELSE parseMulLoop(tokens, left.node, left.pos))

\* the while loop of parseAddExpr, entered with left already parsed
parseAddLoop(tokens, left, pos) ==
    IF IsOperator(tokens[pos], {"+", "-"}) THEN
        With(parseMulExpr(tokens, pos + 1), LAMBDA right :
            IF right.thrown THEN Thrown
            ELSE parseAddLoop(tokens,
                     [type |-> "binary", op |-> tokens[pos].value[1],
                      left |-> left, right |-> right.node], right.pos))
    ELSE Parsed(left, pos)

parseAddExpr(tokens, pos) ==
    With(parseMulExpr(tokens, pos), LAMBDA left :
        IF left.thrown THEN Thrown
        ELSE parseAddLoop(tokens, left.node, left.pos))

\* mutant: tokens after the expression are not looked at
parse_Prefix(tokens) == parseAddExpr(tokens, 1)

\* Parser.parse
parse(tokens) ==
    With(parseAddExpr(tokens, 1), LAMBDA node :
        IF node.thrown THEN Thrown
        ELSE IF tokens[node.pos].type # "EOF" THEN Thrown
        ELSE node)

Null == [null |-> TRUE, value |-> 0]

\* the value null of a Variable object, which is no number
NoValue == Huge + 1

Num(v) == [null |-> FALSE, value |-> v]

\* mutant: a product whose left operand is 0 is 0 whatever the right one is
RECURSIVE evaluateAST_Lazy(_, _, _)
evaluateAST_Lazy(node, variables, vh) ==
    IF node.type = "number" THEN Num(node.value)
    ELSE IF node.type = "variable" THEN
        IF node.name \notin DOMAIN variables THEN Null
        ELSE IF vh[variables[node.name]].value = NoValue THEN Null
        ELSE Num(vh[variables[node.name]].value)
    ELSE
        With(evaluateAST_Lazy(node.left, variables, vh), LAMBDA left :
            IF left.null THEN Null
            ELSE IF node.op = "*" /\ left.value = 0 THEN Num(0)
            ELSE
        With(evaluateAST_Lazy(node.right, variables, vh), LAMBDA right :
            IF right.null THEN Null
            ELSE CASE node.op = "+" -> Num(FAdd(left.value, right.value))
                   [] node.op = "-" -> Num(FSub(left.value, right.value))
                   [] node.op = "*" -> Num(FMul(left.value, right.value))
                   [] node.op = "/" -> IF right.value # 0
                                       THEN Num(FDiv(left.value, right.value))
                                       ELSE Null
                   [] node.op = "^" -> Num(FPow(left.value, right.value))))

\* evaluateAST; variables is the Map name -> reference, vheap holds the
\* Variable objects
RECURSIVE evaluateAST(_, _, _)
evaluateAST(node, variables, vh) ==
    IF node.type = "number" THEN Num(node.value)
    ELSE IF node.type = "variable" THEN
        IF node.name \notin DOMAIN variables THEN Null
        ELSE IF vh[variables[node.name]].value = NoValue THEN Null
        ELSE Num(vh[variables[node.name]].value)
    ELSE
        With(evaluateAST(node.left, variables, vh), LAMBDA left :
        With(evaluateAST(node.right, variables, vh), LAMBDA right :
            IF left.null \/ right.null THEN Null
            ELSE CASE node.op = "+" -> Num(FAdd(left.value, right.value))
                   [] node.op = "-" -> Num(FSub(left.value, right.value))
                   [] node.op = "*" -> Num(FMul(left.value, right.value))
                   [] node.op = "/" -> IF right.value # 0
                                       THEN Num(FDiv(left.value, right.value))
                                       ELSE Null
                   [] node.op = "^" -> Num(FPow(left.value, right.value))))

validateExpression(expr) ==
    With(tokenize(expr), LAMBDA t :
        IF t.thrown THEN FALSE ELSE ~parse(t.tokens).thrown)

\* evaluateExpression: a throw of tokenize or parse is caught and gives null
evaluateExpression(expr, variables, vh) ==
    With(tokenize(expr), LAMBDA t :
        IF t.thrown THEN Null
        ELSE With(parse(t.tokens), LAMBDA ast :
                 IF ast.thrown THEN Null
                 ELSE evaluateAST(ast.node, variables, vh)))

\* mutant: the names are reported last first
extractVariableNames_Reversed(expr) ==
    IF expr.number THEN <<>>
    ELSE With(tokenize(expr.text), LAMBDA t :
             IF t.thrown THEN <<>>
             ELSE With(Filter(t.tokens, LAMBDA tok : tok.type = "VARIABLE"),
                       LAMBDA found :
                      [i \in DOMAIN found |-> found[Len(found) + 1 - i].value]))

\* extractVariableNames; expr is [number |-> TRUE, value |-> the number] for
\* an argument of type number and [number |-> FALSE, text |-> the string]
\* otherwise
extractVariableNames(expr) ==
    IF expr.number THEN <<>>
    ELSE With(tokenize(expr.text), LAMBDA t :
             IF t.thrown THEN <<>>
             ELSE With(Filter(t.tokens, LAMBDA tok : tok.type = "VARIABLE"),
                       LAMBDA found :
                      [i \in DOMAIN found |-> found[i].value]))

-----------------------------------------------------------------------------
(* solver.ts.  The functions take the GeometryState st they work on and    *)
(* the heaps ph, vh of Point and Variable objects.                          *)

MAX_ITERATIONS == 100

\* 1 / CONVERGENCE_THRESHOLD
CONVERGENCE_THRESHOLD_INV == 10000

\* log10 of LAMBDA_INITIAL, LAMBDA_UP and LAMBDA_DOWN
LAMBDA_INITIAL == -2
LAMBDA_UP == 1
LAMBDA_DOWN == -1

\* 1 / SINGULARITY_EPSILON
SINGULARITY_EPSILON_INV == 1000000

\* the elements of a finite set of integers in increasing order
RECURSIVE Sorted(_)
Sorted(S) ==
    IF S = {} THEN <<>>
    ELSE LET m == CHOOSE x \in S : \A y \in S : x <= y
         IN  <<m>> \o Sorted(S \ {m})

\* the keys of state.variables in insertion order, which is the order of
\* their objects' references
VariableNames(st) ==
    LET refs == Sorted({st.variables[n] : n \in DOMAIN st.variables})
    IN  [i \in DOMAIN refs |->
            CHOOSE n \in DOMAIN st.variables : st.variables[n] = refs[i]]

RECURSIVE Concat(_)
Concat(seqs) == IF seqs = <<>> THEN <<>> ELSE Head(seqs) \o Concat(Tail(seqs))

\* mutant: every variable is a free parameter, determined or not
extractFreeParams_AllVariables(st, ph, vh) ==
    LET ids == Sorted(DOMAIN st.points)
        names == VariableNames(st)
    IN  [pointCoords |->
            Concat([i \in DOMAIN ids |->
                LET point == ph[st.points[ids[i]]]
                IN  IF point.isFloating
                    THEN << [pointId |-> point.id, coord |-> "x", value |-> point.x],
                            [pointId |-> point.id, coord |-> "y", value |-> point.y] >>
                    ELSE <<>>]),
         variableValues |->
            Concat([i \in DOMAIN names |->
                LET variable == vh[st.variables[names[i]]]
                IN  << [name |-> variable.name, value |-> variable.value] >>])]

extractFreeParams(st, ph, vh) ==
    LET ids == Sorted(DOMAIN st.points)
        names == VariableNames(st)
    IN  [pointCoords |->
            Concat([i \in DOMAIN ids |->
                LET point == ph[st.points[ids[i]]]
                IN  IF point.isFloating
                    THEN << [pointId |-> point.id, coord |-> "x", value |-> point.x],
                            [pointId |-> point.id, coord |-> "y", value |-> point.y] >>
                    ELSE <<>>]),
         variableValues |->
            Concat([i \in DOMAIN names |->
                LET variable == vh[st.variables[names[i]]]
                IN  IF variable.isDetermined
                    THEN << [name |-> variable.name, value |-> variable.value] >>
                    ELSE <<>>])]

\* the for loops of applyParams from entry i on
RECURSIVE applyPointCoords(_, _, _, _)
applyPointCoords(st, ph, pointCoords, i) ==
    IF i > Len(pointCoords) THEN ph
    ELSE LET e == pointCoords[i]
         IN  IF e.pointId \notin DOMAIN st.points
             THEN applyPointCoords(st, ph, pointCoords, i + 1)
             ELSE LET r == st.points[e.pointId]
                  IN  applyPointCoords(st,
                          IF e.coord = "x" THEN [ph EXCEPT ![r].x = e.value]
                                           ELSE [ph EXCEPT ![r].y = e.value],
                          pointCoords, i + 1)

RECURSIVE applyVariableValues(_, _, _, _)
applyVariableValues(st, vh, variableValues, i) ==
    IF i > Len(variableValues) THEN vh
    ELSE LET e == variableValues[i]
         IN  IF e.name \notin DOMAIN st.variables
             THEN applyVariableValues(st, vh, variableValues, i + 1)
             ELSE applyVariableValues(st,
                      [vh EXCEPT ![st.variables[e.name]].value = e.value],
                      variableValues, i + 1)

applyParams(st, ph, vh, params) ==
    [pheap |-> applyPointCoords(st, ph, params.pointCoords, 1),
     vheap |-> applyVariableValues(st, vh, params.variableValues, 1)]

flattenParams(params) ==
    [i \in DOMAIN params.pointCoords |-> params.pointCoords[i].value]
        \o [i \in DOMAIN params.variableValues |-> params.variableValues[i].value]

unflattenParams(flat, template) ==
    [pointCoords |->
        [i \in DOMAIN template.pointCoords |->
            [template.pointCoords[i] EXCEPT !.value = flat[i]]],
     variableValues |->
        [i \in DOMAIN template.variableValues |->
            [template.variableValues[i] EXCEPT
                !.value = flat[Len(template.pointCoords) + i]]]]

NoCircle == [null |-> TRUE, cx |-> 0, cy |-> 0, r |-> 0]

getCircleCenterRadius(st, ph, circleId) ==
    IF circleId \notin DOMAIN st.circles THEN NoCircle
    ELSE
    LET circle == st.circles[circleId]
    IN  IF circle.type = "RADIUS" /\ circle.centerId # NULL /\ circle.radius # 0
        THEN IF circle.centerId \notin DOMAIN st.points THEN NoCircle
             ELSE LET center == ph[st.points[circle.centerId]]
                  IN  [null |-> FALSE, cx |-> center.x, cy |-> center.y,
                       r |-> circle.radius]
        ELSE IF circle.type = "THREE_POINTS" /\ Len(circle.pointIds) = 3
        THEN IF \E i \in 1..3 : circle.pointIds[i] \notin DOMAIN st.points
             THEN NoCircle
             ELSE With(calculateCircumcircle(
                           ph[st.points[circle.pointIds[1]]],
                           ph[st.points[circle.pointIds[2]]],
                           ph[st.points[circle.pointIds[3]]]), LAMBDA cc :
                      IF cc.nan THEN NoCircle
                      ELSE [null |-> FALSE, cx |-> cc.cx, cy |-> cc.cy,
                            r |-> cc.r])
        ELSE NoCircle

\* Math.max(0, Math.min(1, t)) applied to the projection p1 + t * d, with
\* t = dot / lenSq
pointToSegmentDistance(px, py, x1, y1, x2, y2) ==
    LET dx == x2 - x1
        dy == y2 - y1
        lenSq == dx * dx + dy * dy
    IN  IF FMul(lenSq, SINGULARITY_EPSILON_INV) < 1
        THEN FSqrt((px - x1) * (px - x1) + (py - y1) * (py - y1))
        ELSE
        LET dot == (px - x1) * dx + (py - y1) * dy
            projX == IF dot <= 0 THEN x1 ELSE IF dot >= lenSq THEN x2
                     ELSE x1 + RoundDiv(dot * dx, lenSq)
            projY == IF dot <= 0 THEN y1 ELSE IF dot >= lenSq THEN y2
                     ELSE y1 + RoundDiv(dot * dy, lenSq)
        IN  FSqrt((px - projX) * (px - projX) + (py - projY) * (py - projY))

\* Math.atan2(y, x) * 180 / Math.PI with y = +0 when it vanishes
Atan2DegPos(y, x) == IF y = 0 /\ x < 0 THEN 180 ELSE Atan2Deg(y, x)

\* mutant: the arc through angle 0 is tested like any other
isAngleInArcRange_NoWrap(angle, startAngle, endAngle) ==
    LET a == Norm360(angle)
        s == Norm360(startAngle)
        e == Norm360(endAngle)
    IN  a >= s /\ a <= e

\* isAngleInArcRange, on degrees
isAngleInArcRange(angle, startAngle, endAngle) ==
    LET a == Norm360(angle)
        s == Norm360(startAngle)
        e == Norm360(endAngle)
    IN  IF s <= e THEN a >= s /\ a <= e ELSE a >= s \/ a <= e

Min(a, b) == IF a < b THEN a ELSE b

\* mutant: an expression that cannot be evaluated counts as the target 0
Target_ZeroWhenNull(constraint, st, vh) ==
    IF Len(constraint.pointIds) # 2 \/ constraint.expression = <<>> THEN Null
    ELSE IF \E i \in 1..2 : constraint.pointIds[i] \notin DOMAIN st.points
    THEN Null
    ELSE With(evaluateExpression(constraint.expression, st.variables, vh),
              LAMBDA targetValue :
             IF targetValue.null THEN Num(0) ELSE targetValue)

\* the guards of the DISTANCE and ANGLE cases and the evaluated target
Target(constraint, st, vh) ==
    IF Len(constraint.pointIds) # 2 \/ constraint.expression = <<>> THEN Null
    ELSE IF \E i \in 1..2 : constraint.pointIds[i] \notin DOMAIN st.points
    THEN Null
    ELSE evaluateExpression(constraint.expression, st.variables, vh)

\* case 'ANGLE' up to `let diff = actualAngle - targetValue`
AngleDiff(constraint, st, ph, vh) ==
    LET p1 == ph[st.points[constraint.pointIds[1]]]
        p2 == ph[st.points[constraint.pointIds[2]]]
        targetValue == Target(constraint, st, vh).value
        actualAngle == Atan2Deg(-(p2.y - p1.y), p2.x - p1.x)
    IN  FSub(actualAngle, targetValue)

\* the two loops leave diff as it is, and their conditions true
NeverWraps(diff) ==
    \/ diff > 180 /\ FSub(diff, 360) = diff
    \/ diff < -180 /\ FAdd(diff, 360) = diff

\* mutant: `if (diff > 180) diff -= 360`
WrapDown_Once(diff) == IF diff > 180 THEN FSub(diff, 360) ELSE diff

\* while (diff > 180) diff -= 360: the diff it ends with, when it ends
RECURSIVE WrapDown(_)
WrapDown(diff) == IF diff > 180 THEN WrapDown(FSub(diff, 360)) ELSE diff

\* while (diff < -180) diff += 360: the diff it ends with, when it ends
RECURSIVE WrapUp(_)
WrapUp(diff) == IF diff < -180 THEN WrapUp(FAdd(diff, 360)) ELSE diff

\* computeResidual gets into the ANGLE case's loops with a diff they cannot
\* reduce
Stuck(constraint, st, ph, vh) ==
    /\ constraint.type = "ANGLE"
    /\ ~Target(constraint, st, vh).null
    /\ NeverWraps(AngleDiff(constraint, st, ph, vh))

computeResidual(constraint, st, ph, vh) ==
    CASE constraint.type = "DISTANCE" ->
            With(Target(constraint, st, vh), LAMBDA t :
                IF t.null THEN 0
                ELSE LET p1 == ph[st.points[constraint.pointIds[1]]]
                         p2 == ph[st.points[constraint.pointIds[2]]]
                         dx == p2.x - p1.x
                         dy == p2.y - p1.y
                     IN  FSub(FSqrt(dx * dx + dy * dy), t.value))
      [] constraint.type = "ANGLE" ->
            IF Target(constraint, st, vh).null THEN 0
            ELSE WrapUp(WrapDown(AngleDiff(constraint, st, ph, vh)))
      [] constraint.type = "POINT_ON_SEGMENT" ->
            IF Len(constraint.pointIds) # 1 \/ constraint.targetId = NULL THEN 0
            ELSE IF constraint.pointIds[1] \notin DOMAIN st.points
                    \/ constraint.targetId \notin DOMAIN st.segments THEN 0
            ELSE LET floatPt == ph[st.points[constraint.pointIds[1]]]
                     segment == st.segments[constraint.targetId]
                 IN  IF segment.p1 \notin DOMAIN st.points
                        \/ segment.p2 \notin DOMAIN st.points THEN 0
                     ELSE LET p1 == ph[st.points[segment.p1]]
                              p2 == ph[st.points[segment.p2]]
                          IN  pointToSegmentDistance(floatPt.x, floatPt.y,
                                                     p1.x, p1.y, p2.x, p2.y)
      [] constraint.type = "POINT_ON_CIRCLE" ->
            IF Len(constraint.pointIds) # 1 \/ constraint.targetId = NULL THEN 0
            ELSE With(getCircleCenterRadius(st, ph, constraint.targetId),
                      LAMBDA circleData :
                     IF constraint.pointIds[1] \notin DOMAIN st.points
                        \/ circleData.null THEN 0
                     ELSE LET floatPt == ph[st.points[constraint.pointIds[1]]]
                              ex == floatPt.x - circleData.cx
                              ey == floatPt.y - circleData.cy
                              distToCenter == FSqrt(ex * ex + ey * ey)
                          IN  Abs(FSub(distToCenter, circleData.r)))
      [] constraint.type = "POINT_ON_ARC" ->
            IF Len(constraint.pointIds) # 1 \/ constraint.targetId = NULL THEN 0
            ELSE IF constraint.pointIds[1] \notin DOMAIN st.points
                    \/ constraint.targetId \notin DOMAIN st.arcs THEN 0
            ELSE With(getCircleCenterRadius(st, ph,
                          st.arcs[constraint.targetId].circleId),
                      LAMBDA circleData :
                 LET floatPt == ph[st.points[constraint.pointIds[1]]]
                     arc == st.arcs[constraint.targetId]
                 IN  IF circleData.null THEN 0
                     ELSE IF arc.startId \notin DOMAIN st.points
                             \/ arc.endId \notin DOMAIN st.points THEN 0
                     ELSE
                     LET startPt == ph[st.points[arc.startId]]
                         endPt == ph[st.points[arc.endId]]
                         ex == floatPt.x - circleData.cx
                         ey == floatPt.y - circleData.cy
                         radialError ==
                             Abs(FSub(FSqrt(ex * ex + ey * ey), circleData.r))
                     IN
                     With(Norm360(Atan2DegPos(ey, ex)), LAMBDA pa :
                     With(Norm360(Atan2DegPos(startPt.y - circleData.cy,
                                              startPt.x - circleData.cx)),
                          LAMBDA sa :
                     With(Norm360(Atan2DegPos(endPt.y - circleData.cy,
                                              endPt.x - circleData.cx)),
                          LAMBDA ea :
                     LET distToStart == Min(Abs(pa - sa), 360 - Abs(pa - sa))
                         distToEnd == Min(Abs(pa - ea), 360 - Abs(pa - ea))
                         \* radians times r
                         angularPenalty ==
                             IF isAngleInArcRange(pa, sa, ea) THEN 0
                             ELSE RoundDiv(Min(distToStart, distToEnd) * 314
                                               * circleData.r, 18000)
                     IN  FAdd(radialError, angularPenalty)))))
      [] constraint.type = "EQUATION" ->
            IF constraint.expression = <<>> THEN 0
            ELSE With(evaluateExpression(constraint.expression,
                                         st.variables, vh), LAMBDA value :
                     IF value.null THEN 0 ELSE value.value)
      [] OTHER -> 0

computeResiduals(st, ph, vh) ==
    [j \in DOMAIN st.constraints |-> computeResidual(st.constraints[j], st, ph, vh)]

\* computeResiduals does not return: the diff its first stuck constraint
\* loops on, in a set that is empty when it returns
StuckDiff(st, ph, vh) ==
    With({j \in DOMAIN st.constraints : Stuck(st.constraints[j], st, ph, vh)},
         LAMBDA stuck :
        IF stuck = {} THEN {}
        ELSE {AngleDiff(st.constraints[CHOOSE j \in stuck : \A k \in stuck : j <= k],
                        st, ph, vh)})

RECURSIVE SumSquares(_)
SumSquares(v) ==
    IF v = <<>> THEN 0 ELSE FAdd(FSquare(Head(v)), SumSquares(Tail(v)))

\* vecNorm.  A norm is carried as its square, which orders norms as
\* Math.sqrt does.
vecNorm(v) == SumSquares(v)

\* error < CONVERGENCE_THRESHOLD, for a norm carried as its square
BelowThreshold(error) ==
    FMul(FMul(error, CONVERGENCE_THRESHOLD_INV), CONVERGENCE_THRESHOLD_INV) < 1

vecAdd(a, b) == [i \in DOMAIN a |-> FAdd(a[i], b[i])]

\* mutant: a trial step that is no worse is kept
Improves_NotWorse(newError, error) == newError <= error

\* mutant: every trial step is kept
Improves_Always(newError, error) == TRUE

\* `if (newError < error)`: the trial step is kept
Improves(newError, error) == newError < error

\* computeJacobian by forward differences, the perturbation being one unit:
\* column i holds the change of every residual per unit of parameter i
computeJacobian(st, ph, vh, params) ==
    LET flatParams == flattenParams(params)
        base == applyParams(st, ph, vh, params)
        baseResiduals == computeResiduals(st, base.pheap, base.vheap)
    IN  IF Len(flatParams) = 0 \/ Len(st.constraints) = 0 THEN <<>>
        ELSE [i \in DOMAIN flatParams |->
                LET perturbedFlat == [flatParams EXCEPT ![i] = FAdd(@, 1)]
                    perturbed == applyParams(st, ph, vh,
                                     unflattenParams(perturbedFlat, params))
                    perturbedResiduals ==
                        computeResiduals(st, perturbed.pheap, perturbed.vheap)
                IN  [j \in DOMAIN st.constraints |->
                        FSub(perturbedResiduals[j], baseResiduals[j])]]

\* what one unit of step can be along each parameter
Deltas == {-1, 0, 1}

\* The steps solveLinearSystem(JtJ + lambda * diag, -Jtr) can return, to the
\* unit: a parameter no residual depends on has a zero row and a zero
\* right-hand side and keeps delta 0; any other parameter moves by any
\* element of Deltas.
StepCandidates(J) ==
    {delta \in [DOMAIN J -> Deltas] :
        \A i \in DOMAIN J : (\A j \in DOMAIN J[i] : J[i][j] = 0) => delta[i] = 0}

-----------------------------------------------------------------------------
(* The entity store: one action per exported operation of state.ts *)

\* no solve is running
IdleFrame ==
    [pc |-> "idle", st |-> createInitialState,
     params |-> [pointCoords |-> <<>>, variableValues |-> <<>>],
     iter |-> 0, lambda |-> LAMBDA_INITIAL, diff |-> 0]

NoEntry == [pheap |-> <<>>, vheap |-> <<>>, state |-> createInitialState]

Init ==
    /\ idCounter = 0
    /\ labelCounter = 0
    /\ pheap = <<>>
    /\ vheap = <<>>
    /\ state = createInitialState
    /\ call = [op |-> "createInitialState", args |-> <<>>, ret |-> NULL]
    /\ frame = IdleFrame
    /\ entry = NoEntry

Returns(r, op, args) ==
    /\ r.w.idCounter <= MaxId
    /\ idCounter' = r.w.idCounter
    /\ labelCounter' = r.w.labelCounter
    /\ pheap' = [ref \in {r.w.st.points[i] : i \in DOMAIN r.w.st.points}
                    |-> r.w.pheap[ref]]
    /\ state' = r.w.st
    /\ call' = [op |-> op, args |-> args, ret |-> r.ret]
    /\ UNCHANGED solverVars

\* ids passed where a point (a segment) is looked up: the live ones and one
\* that resolves to nothing
PointArgs == (DOMAIN state.points) \cup {idCounter + 1}
SegmentArgs == (DOMAIN state.segments) \cup {idCounter + 1}

\* addPoint is offered the first position of PointCoords that no live point
\* holds (the positions are interchangeable up to the order of the calls)
Occupied == {<<pheap[state.points[i]].x, pheap[state.points[i]].y>> :
                i \in DOMAIN state.points}

FreeCoords == {i \in DOMAIN PointCoords : PointCoords[i] \notin Occupied}

AddPoint ==
    /\ idCounter < MaxId
    /\ \E i \in FreeCoords :
           /\ \A j \in FreeCoords : i <= j
           /\ Returns(addPoint(World, PointCoords[i][1], PointCoords[i][2]),
                      "addPoint", PointCoords[i])

AddSegmentTwoPoints ==
    /\ idCounter < MaxId
    /\ \E p1Id \in PointArgs, p2Id \in PointArgs :
           Returns(addSegmentTwoPoints(World, p1Id, p2Id),
                   "addSegmentTwoPoints", <<p1Id, p2Id>>)

AddSegmentAbsAngle ==
    /\ idCounter < MaxId
    /\ \E p1Id \in PointArgs, angle \in Angles, length \in Lengths :
           Returns(addSegmentAbsAngle(World, p1Id, angle, length),
                   "addSegmentAbsAngle", <<p1Id, angle, length>>)

\* the reference segments offered are parallel to an axis, where atan2 is a
\* multiple of 90 degrees
AddSegmentRelAngle ==
    /\ idCounter < MaxId
    /\ \E p1Id \in PointArgs, refSegmentId \in SegmentArgs, relAngle \in Angles,
          length \in Lengths :
           /\ AxisParallel(World, refSegmentId)
           /\ Returns(addSegmentRelAngle(World, p1Id, refSegmentId, relAngle,
                                         length),
                      "addSegmentRelAngle",
                      <<p1Id, refSegmentId, relAngle, length>>)

AddCircleRadius ==
    /\ idCounter < MaxId
    /\ \E centerId \in PointArgs, radius \in Radii :
           Returns(addCircleRadius(World, centerId, radius),
                   "addCircleRadius", <<centerId, radius>>)

AddCircleCircumference ==
    /\ idCounter < MaxId
    /\ \E centerId \in PointArgs, circumPointId \in PointArgs :
           Returns(addCircleCircumference(World, centerId, circumPointId),
                   "addCircleCircumference", <<centerId, circumPointId>>)

\* the three ids are offered in non-decreasing order
AddCircleThreePoints ==
    /\ idCounter < MaxId
    /\ \E p1Id \in PointArgs, p2Id \in PointArgs, p3Id \in PointArgs :
           /\ p1Id <= p2Id /\ p2Id <= p3Id
           /\ Returns(addCircleThreePoints(World, p1Id, p2Id, p3Id),
                      "addCircleThreePoints", <<p1Id, p2Id, p3Id>>)

\* ids passed to deleteEntity: the live ones, the one just deleted (a second
\* call on the same id) and one never allocated
Live == (DOMAIN state.points) \cup (DOMAIN state.segments)
            \cup (DOMAIN state.circles)

DeleteArgs ==
    Live \cup {idCounter + 1}
         \cup (IF call.op = "deleteEntity" THEN {call.args[1]} ELSE {})

DeleteEntity ==
    \E id \in DeleteArgs :
        Returns([w |-> deleteEntity(World, id), ret |-> NULL],
                "deleteEntity", <<id>>)

Next ==
    \/ AddPoint
    \/ AddSegmentTwoPoints
    \/ AddSegmentAbsAngle
    \/ AddSegmentRelAngle
    \/ AddCircleRadius
    \/ AddCircleCircumference
    \/ AddCircleThreePoints
    \/ DeleteEntity

Spec == Init /\ [][Next]_vars

-----------------------------------------------------------------------------
(* The entity store late in a session: the operations that create points,   *)
(* and deleteEntity, called after LabelOffset points were created and       *)
(* deleted again, so that the labels run from Y over Z to A1, B1, ...       *)

\* points created, and deleted, before the first state
LabelOffset == 24

LabelInit ==
    /\ idCounter = LabelOffset
    /\ labelCounter = LabelOffset
    /\ pheap = <<>>
    /\ vheap = <<>>
    /\ state = createInitialState
    /\ call = [op |-> "deleteEntity", args |-> <<LabelOffset>>, ret |-> NULL]
    /\ frame = IdleFrame
    /\ entry = NoEntry

LabelReturns(r, op, args) ==
    /\ r.w.idCounter <= LabelOffset + MaxId
    /\ idCounter' = r.w.idCounter
    /\ labelCounter' = r.w.labelCounter
    /\ pheap' = [ref \in {r.w.st.points[i] : i \in DOMAIN r.w.st.points}
                    |-> r.w.pheap[ref]]
    /\ state' = r.w.st
    /\ call' = [op |-> op, args |-> args, ret |-> r.ret]
    /\ UNCHANGED solverVars

LabelAddPoint ==
    /\ idCounter < LabelOffset + MaxId
    /\ \E i \in FreeCoords :
           /\ \A j \in FreeCoords : i <= j
           /\ LabelReturns(addPoint(World, PointCoords[i][1], PointCoords[i][2]),
                           "addPoint", PointCoords[i])

LabelAddSegmentAbsAngle ==
    /\ idCounter < LabelOffset + MaxId
    /\ \E p1Id \in PointArgs, angle \in Angles, length \in Lengths :
           LabelReturns(addSegmentAbsAngle(World, p1Id, angle, length),
                        "addSegmentAbsAngle", <<p1Id, angle, length>>)

LabelAddSegmentRelAngle ==
    /\ idCounter < LabelOffset + MaxId
    /\ \E p1Id \in PointArgs, refSegmentId \in SegmentArgs, relAngle \in Angles,
          length \in Lengths :
           /\ AxisParallel(World, refSegmentId)
           /\ LabelReturns(addSegmentRelAngle(World, p1Id, refSegmentId,
                                              relAngle, length),
                           "addSegmentRelAngle",
                           <<p1Id, refSegmentId, relAngle, length>>)

LabelAddCircleThreePoints ==
    /\ idCounter < LabelOffset + MaxId
    /\ \E p1Id \in PointArgs, p2Id \in PointArgs, p3Id \in PointArgs :
           /\ p1Id <= p2Id /\ p2Id <= p3Id
           /\ LabelReturns(addCircleThreePoints(World, p1Id, p2Id, p3Id),
                           "addCircleThreePoints", <<p1Id, p2Id, p3Id>>)

LabelDeleteEntity ==
    \E id \in DeleteArgs :
        LabelReturns([w |-> deleteEntity(World, id), ret |-> NULL],
                     "deleteEntity", <<id>>)

LabelNext ==
    \/ LabelAddPoint
    \/ LabelAddSegmentAbsAngle
    \/ LabelAddSegmentRelAngle
    \/ LabelAddCircleThreePoints
    \/ LabelDeleteEntity

LabelSpec == LabelInit /\ [][LabelNext]_vars

-----------------------------------------------------------------------------
(* The solver: solve and validateConstraint run on a sketch of the host.   *)
(* solve is followed statement by statement: one step for the code before  *)
(* the loop, one per iteration of the loop, one for the code after it, and *)
(* one per test and per body of the ANGLE case's while loops when they do  *)
(* not come to an end.                                                      *)

EmptyWorld == [idCounter |-> 0, labelCounter |-> 0, pheap |-> <<>>,
               st |-> createInitialState]

\* the sketch: A(0,0), B(4,0), the segment AB, the circle around A with
\* radius 3, and C(1,2); their ids are 1 .. 5 in this order
SketchWorld ==
    LET a == addPoint(EmptyWorld, 0, 0).w
        b == addPoint(a, 4, 0).w
        ab == addSegmentTwoPoints(b, 1, 2).w
        circle == addCircleRadius(ab, 1, 3).w
    IN  addPoint(circle, 1, 2).w

\* the points of the sketch that may be floating
FloatingPoints == {5}

\* the variables of the sketch: x, which may be determined, and a, which
\* the user sets
XName == <<"x">>
AName == <<"a">>
XValues == {2}
AValues == {90, Huge}

Constraint(id, type, pointIds, targetId, expression) ==
    [id |-> id, type |-> type, pointIds |-> pointIds, targetId |-> targetId,
     expression |-> expression]

\* the constraints offered, under the id given: C on AB, C on the circle,
\* x = 0, the direction of AB is a degrees, |AC| = x, C on a segment that is
\* not in the store, and an expression that does not parse
Candidates(id) ==
    {Constraint(id, "POINT_ON_SEGMENT", <<5>>, 3, <<>>),
     Constraint(id, "POINT_ON_CIRCLE", <<5>>, 4, <<>>),
     Constraint(id, "EQUATION", <<>>, NULL, <<"x">>),
     Constraint(id, "ANGLE", <<1, 2>>, NULL, <<"a">>),
     Constraint(id, "DISTANCE", <<1, 5>>, NULL, <<"x">>),
     Constraint(id, "POINT_ON_SEGMENT", <<5>>, 9, <<>>),
     Constraint(id, "EQUATION", <<>>, NULL, <<"(", "x">>)}

\* constraints the sketch holds before the call
MaxConstraints == 1

ConstraintLists ==
    {<<>>} \cup (IF MaxConstraints >= 1
                 THEN {<<c>> : c \in Candidates(SketchWorld.idCounter + 1)}
                 ELSE {})
            \cup (IF MaxConstraints >= 2
                 THEN {<<c, d>> : c \in Candidates(SketchWorld.idCounter + 1),
                                  d \in Candidates(SketchWorld.idCounter + 2)}
                 ELSE {})

\* what call.ret holds while the call runs; a SolverResult when solve has
\* returned, and [valid |-> the boolean] when validateConstraint has
Pending == [pending |-> TRUE]

\* the sketch with one of the given constraint lists
SketchInit(lists) ==
    \E floating \in SUBSET FloatingPoints, isDetermined \in BOOLEAN,
       xValue \in XValues, aValue \in AValues, constraints \in lists :
        /\ idCounter = SketchWorld.idCounter + Len(constraints)
        /\ labelCounter = SketchWorld.labelCounter
        /\ pheap = [r \in DOMAIN SketchWorld.pheap |->
                       [SketchWorld.pheap[r] EXCEPT
                           !.isFloating = (SketchWorld.pheap[r].id \in floating)]]
        /\ vheap = <<[name |-> XName, value |-> xValue,
                      isDetermined |-> isDetermined],
                     [name |-> AName, value |-> aValue, isDetermined |-> FALSE]>>
        /\ state = [points |-> SketchWorld.st.points,
                    segments |-> SketchWorld.st.segments,
                    circles |-> SketchWorld.st.circles,
                    arcs |-> <<>>,
                    variables |-> [n \in {XName, AName} |->
                                      IF n = XName THEN 1 ELSE 2],
                    constraints |-> constraints]
        /\ call = [op |-> "createInitialState", args |-> <<>>, ret |-> Pending]
        /\ frame = IdleFrame
        /\ entry = NoEntry

SolveInit == SketchInit(ConstraintLists)

Snapshot == [pheap |-> pheap, vheap |-> vheap, state |-> state]

\* solve(st) is entered
Enter(st) == [IdleFrame EXCEPT !.pc = "start", !.st = st]

MaxRef(h) == IF DOMAIN h = {} THEN 0
             ELSE CHOOSE r \in DOMAIN h : \A q \in DOMAIN h : q <= r

\* `{ ...p }` for every object the Map m refers to: the copies are new
\* objects, at references no object has
CloneAll(m, h) ==
    [map |-> [k \in DOMAIN m |-> m[k] + MaxRef(h)],
     heap |-> [r \in (DOMAIN h) \cup {m[k] + MaxRef(h) : k \in DOMAIN m} |->
                  IF r \in DOMAIN h THEN h[r] ELSE h[r - MaxRef(h)]]]

\* mutant: the trial state holds the caller's Point and Variable objects
trialState_SharedObjects(st, ph, vh, newConstraint) ==
    [st |-> [st EXCEPT !.constraints = Push(@, newConstraint)],
     pheap |-> ph, vheap |-> vh]

\* validateConstraint: const trialState = { ... }
trialState(st, ph, vh, newConstraint) ==
    LET points == CloneAll(st.points, ph)
        variables == CloneAll(st.variables, vh)
    IN  [st |-> [st EXCEPT !.points = points.map,
                           !.variables = variables.map,
                           !.constraints = Push(@, newConstraint)],
         pheap |-> points.heap, vheap |-> variables.heap]

CallSolve ==
    /\ frame.pc = "idle"
    /\ frame' = Enter(state)
    /\ entry' = Snapshot
    /\ call' = [op |-> "solve", args |-> <<>>, ret |-> Pending]
    /\ UNCHANGED <<idCounter, labelCounter, pheap, vheap, state>>

CallValidateConstraint ==
    /\ frame.pc = "idle"
    /\ \E newConstraint \in Candidates(idCounter + 1) :
        LET t == trialState(state, pheap, vheap, newConstraint)
        IN  /\ frame' = Enter(t.st)
            /\ pheap' = t.pheap
            /\ vheap' = t.vheap
            /\ call' = [op |-> "validateConstraint", args |-> <<newConstraint>>,
                        ret |-> Pending]
    /\ entry' = Snapshot
    /\ UNCHANGED <<idCounter, labelCounter, state>>

\* solve returns result and leaves the heaps ph, vh; validateConstraint
\* returns result.success, and the objects of its trial state are garbage
Return(result, ph, vh) ==
    /\ frame' = [IdleFrame EXCEPT !.pc = "done"]
    /\ call' = [call EXCEPT !.ret = IF call.op = "solve" THEN result
                                    ELSE [valid |-> result.success]]
    /\ pheap' = [r \in {state.points[i] : i \in DOMAIN state.points} |-> ph[r]]
    /\ vheap' = [r \in {state.variables[n] : n \in DOMAIN state.variables} |->
                    vh[r]]
    /\ UNCHANGED <<idCounter, labelCounter, state, entry>>

\* computeResidual is in the loops of its ANGLE case with a diff they leave
\* as it is
EnterWrap(diff, ph, vh) ==
    /\ frame' = [frame EXCEPT !.pc = "wrapTest", !.diff = diff]
    /\ pheap' = ph
    /\ vheap' = vh
    /\ UNCHANGED <<idCounter, labelCounter, state, call, entry>>

\* computeResiduals on the heaps ph, vh, then what follows it
Residuals(ph, vh, Continue(_)) ==
    With(StuckDiff(frame.st, ph, vh), LAMBDA stuck :
        IF stuck # {}
        THEN EnterWrap(CHOOSE d \in stuck : TRUE, ph, vh)
        ELSE Continue(computeResiduals(frame.st, ph, vh)))

\* solve up to its loop
SolveStart ==
    /\ frame.pc = "start"
    /\ IF Len(frame.st.constraints) = 0
       THEN Return([success |-> TRUE, iterations |-> 0, finalError |-> 0],
                   pheap, vheap)
       ELSE
       LET params == extractFreeParams(frame.st, pheap, vheap)
           applied == applyParams(frame.st, pheap, vheap, params)
           Finish(residuals) ==
               Return([success |-> BelowThreshold(vecNorm(residuals)),
                       iterations |-> 0,
                       finalError |-> vecNorm(residuals)],
                      applied.pheap, applied.vheap)
       IN  IF Len(flattenParams(params)) = 0
           THEN Residuals(applied.pheap, applied.vheap, Finish)
           ELSE /\ frame' = [frame EXCEPT !.pc = "loop", !.params = params,
                                          !.iter = 0, !.lambda = LAMBDA_INITIAL]
                /\ UNCHANGED <<idCounter, labelCounter, pheap, vheap, state,
                               call, entry>>

\* one iteration of the loop of solve
SolveIterate ==
    /\ frame.pc = "loop"
    /\ frame.iter < MAX_ITERATIONS
    /\ LET st == frame.st
           params == frame.params
           flatParams == flattenParams(params)
           applied == applyParams(st, pheap, vheap, params)
           Body(residuals) ==
               LET error == vecNorm(residuals)
                   J == computeJacobian(st, applied.pheap, applied.vheap, params)
               IN  IF BelowThreshold(error)
                   THEN Return([success |-> TRUE, iterations |-> frame.iter,
                                finalError |-> error],
                               applied.pheap, applied.vheap)
                   ELSE \E delta \in StepCandidates(J) :
                       LET newFlatParams == vecAdd(flatParams, delta)
                           newParams == unflattenParams(newFlatParams, params)
                           trial == applyParams(st, applied.pheap, applied.vheap,
                                                newParams)
                           restored == applyParams(st, trial.pheap, trial.vheap,
                                                   params)
                           Decide(newResiduals) ==
                               IF Improves(vecNorm(newResiduals), error)
                               THEN /\ frame' = [frame EXCEPT
                                           !.params = newParams,
                                           !.lambda = @ + LAMBDA_DOWN,
                                           !.iter = @ + 1]
                                    /\ pheap' = trial.pheap
                                    /\ vheap' = trial.vheap
                                    /\ UNCHANGED <<idCounter, labelCounter,
                                                   state, call, entry>>
                               ELSE /\ frame' = [frame EXCEPT
                                           !.lambda = @ + LAMBDA_UP,
                                           !.iter = @ + 1]
                                    /\ pheap' = restored.pheap
                                    /\ vheap' = restored.vheap
                                    /\ UNCHANGED <<idCounter, labelCounter,
                                                   state, call, entry>>
                       IN  Residuals(trial.pheap, trial.vheap, Decide)
       IN  Residuals(applied.pheap, applied.vheap, Body)

\* solve after its loop
SolveExit ==
    /\ frame.pc = "loop"
    /\ frame.iter >= MAX_ITERATIONS
    /\ LET Finish(finalResiduals) ==
               Return([success |-> FALSE, iterations |-> MAX_ITERATIONS,
                       finalError |-> vecNorm(finalResiduals)], pheap, vheap)
       IN  Residuals(pheap, vheap, Finish)

\* the test of `while (diff > 180)` or `while (diff < -180)` holds
WrapTest ==
    /\ frame.pc = "wrapTest"
    /\ frame.diff > 180 \/ frame.diff < -180
    /\ frame' = [frame EXCEPT !.pc = "wrapBody"]
    /\ UNCHANGED <<idCounter, labelCounter, pheap, vheap, state, call, entry>>

\* `diff -= 360` or `diff += 360`
WrapBody ==
    /\ frame.pc = "wrapBody"
    /\ frame' = [frame EXCEPT !.pc = "wrapTest",
                              !.diff = IF @ > 180 THEN FSub(@, 360)
                                       ELSE FAdd(@, 360)]
    /\ UNCHANGED <<idCounter, labelCounter, pheap, vheap, state, call, entry>>

SolveNext ==
    \/ CallSolve
    \/ CallValidateConstraint
    \/ SolveStart
    \/ SolveIterate
    \/ SolveExit
    \/ WrapTest
    \/ WrapBody

SolveSpec == SolveInit /\ [][SolveNext]_vars

-----------------------------------------------------------------------------
(* solve on well-posed sketches: C floats, and two constraints leave it one *)
(* position.                                                                *)

\* C on AB and |AC| = x = 2, met at (2,0) only; C on AB and on the circle
\* around A with radius 3, met at (3,0) only
PosedLists ==
    {<<Constraint(6, "POINT_ON_SEGMENT", <<5>>, 3, <<>>),
       Constraint(7, "DISTANCE", <<1, 5>>, NULL, <<"x">>)>>,
     <<Constraint(6, "POINT_ON_CIRCLE", <<5>>, 4, <<>>),
       Constraint(7, "POINT_ON_SEGMENT", <<5>>, 3, <<>>)>>}

\* where the user dropped C: the initial guess
PosedGuesses == {<<1, 2>>, <<3, 1>>, <<-1, 0>>}

PosedInit ==
    \E guess \in PosedGuesses, constraints \in PosedLists :
        /\ idCounter = SketchWorld.idCounter + Len(constraints)
        /\ labelCounter = SketchWorld.labelCounter
        /\ pheap = [r \in DOMAIN SketchWorld.pheap |->
                       IF SketchWorld.pheap[r].id \in FloatingPoints
                       THEN [SketchWorld.pheap[r] EXCEPT
                                !.isFloating = TRUE,
                                !.x = guess[1], !.y = guess[2]]
                       ELSE SketchWorld.pheap[r]]
        /\ vheap = <<[name |-> XName, value |-> 2, isDetermined |-> FALSE]>>
        /\ state = [points |-> SketchWorld.st.points,
                    segments |-> SketchWorld.st.segments,
                    circles |-> SketchWorld.st.circles,
                    arcs |-> <<>>,
                    variables |-> [n \in {XName} |-> 1],
                    constraints |-> constraints]
        /\ call = [op |-> "createInitialState", args |-> <<>>, ret |-> Pending]
        /\ frame = IdleFrame
        /\ entry = NoEntry

PosedNext ==
    \/ CallSolve
    \/ SolveStart
    \/ SolveIterate
    \/ SolveExit

PosedSpec == PosedInit /\ [][PosedNext]_vars

-----------------------------------------------------------------------------
(* The expression functions applied to the strings of up to MaxExprLen       *)
(* characters, to the chains of two operators, and to some longer strings.  *)

MaxExprLen == 3

\* characters of every class of the tokenizer; "#" is in none
ExprChars ==
    {"x", "y", "z", "q", "0", "2", "3", "+", "-", "*", "/", "^", "(", ")",
     " ", "#"}

ShortExprs == UNION {[1 .. n -> ExprChars] : n \in 0 .. MaxExprLen}

ChainExprs ==
    {<<a, o1, b, o2, c>> : a \in {"2", "3", "4"}, o1 \in OperatorChars,
                           b \in {"2", "3", "4"}, o2 \in OperatorChars,
                           c \in {"2", "3", "4"}}

LongExprs ==
    {<<"1", "0", "-", "4", "-", "3">>,
     <<"x", " ", "+", "+", " ", "2">>,
     <<"(", "x", " ", "+", " ", "3">>,
     <<"(", "x", " ", "+", " ", "3", ")", " ", "*", " ", "2">>,
     <<"x", " ", "+", " ", "x">>,
     <<"z", " ", "*", " ", "(", "q", " ", "+", " ", "y", ")">>,
     <<"(", "2", "+", "3", ")", "*", "4">>,
     <<"2", "*", "(", "3", "+", "4", ")">>,
     <<"(", "2", "^", "3", ")", "^", "2">>,
     <<"2", "^", "(", "3", "^", "2", ")">>,
     <<"1", "0", "-", "(", "4", "-", "3", ")">>,
     <<"8", "/", "(", "4", "/", "2", ")">>,
     <<"x", "1", "+", "y", "_", "+", "x", "1", "#">>,
     <<"y", "2", " ", "*", "x", "/", "y", "2", "-", "q">>}

ExprInputs == ShortExprs \cup ChainExprs \cup LongExprs

\* the Variable objects of the maps: x and z have values, y has the value
\* null, and no map has q
ExprVariables ==
    <<[name |-> <<"x">>, value |-> 5, isDetermined |-> FALSE],
      [name |-> <<"y">>, value |-> NoValue, isDetermined |-> TRUE],
      [name |-> <<"z">>, value |-> 0, isDetermined |-> FALSE]>>

ExprMaps ==
    {[n \in names |-> CHOOSE r \in DOMAIN ExprVariables :
                          ExprVariables[r].name = n] :
        names \in {{<<"x">>, <<"y">>, <<"z">>}, {<<"x">>, <<"z">>}}}

ExprInit ==
    \E expr \in [number : {FALSE}, text : ExprInputs]
                    \cup [number : {TRUE}, value : {7}],
       variables \in ExprMaps :
        /\ idCounter = 0
        /\ labelCounter = 0
        /\ pheap = <<>>
        /\ vheap = ExprVariables
        /\ state = [points |-> <<>>, segments |-> <<>>, circles |-> <<>>,
                    arcs |-> <<>>, variables |-> variables,
                    constraints |-> <<>>]
        /\ call = [op |-> "expression", args |-> <<expr>>, ret |-> NULL]
        /\ frame = IdleFrame
        /\ entry = NoEntry

ExprReturns(op, ret) ==
    /\ call' = [op |-> op, args |-> call.args, ret |-> ret]
    /\ UNCHANGED <<storeVars, solverVars>>

ValidateExpression ==
    \E expr \in Range(call.args) :
        /\ ~expr.number
        /\ ExprReturns("validateExpression",
                       [valid |-> validateExpression(expr.text)])

EvaluateExpression ==
    \E expr \in Range(call.args) :
        ExprReturns("evaluateExpression",
                    IF expr.number THEN Num(expr.value)
                    ELSE evaluateExpression(expr.text, state.variables, vheap))

ExtractVariableNames ==
    \E expr \in Range(call.args) :
        ExprReturns("extractVariableNames",
                    [names |-> extractVariableNames(expr)])

ExprNext ==
    \/ ValidateExpression
    \/ EvaluateExpression
    \/ ExtractVariableNames

ExprSpec == ExprInit /\ [][ExprNext]_vars

-----------------------------------------------------------------------------
(* state.ts, intersection detection.  Coordinates and radii are doubles in  *)
(* whole units: an integer, Infinity, -Infinity or NaN.  The parameters     *)
(* t, u along a segment and EPSILON are counted in thousandths.             *)

\* the magnitude from which on a double is infinite
Infinity == 1073741824

NaN == Infinity + 1

IsNaN(a) == a = NaN

IsInf(a) == a # NaN /\ (a >= Infinity \/ a <= -Infinity)

DNeg(a) == IF IsNaN(a) THEN NaN ELSE -a

DAbs(a) == IF IsNaN(a) THEN NaN ELSE Abs(a)

DAdd(a, b) ==
    IF IsNaN(a) \/ IsNaN(b) THEN NaN
    ELSE IF IsInf(a) THEN (IF IsInf(b) /\ Sign(a) # Sign(b) THEN NaN
                          ELSE Sign(a) * Infinity)
    ELSE IF IsInf(b) THEN Sign(b) * Infinity
    ELSE IF Abs(a + b) >= Infinity THEN Sign(a + b) * Infinity
    ELSE a + b

DSub(a, b) == DAdd(a, DNeg(b))

DMul(a, b) ==
    IF IsNaN(a) \/ IsNaN(b) THEN NaN
    ELSE IF a = 0 \/ b = 0 THEN (IF IsInf(a) \/ IsInf(b) THEN NaN ELSE 0)
    ELSE IF IsInf(a) \/ IsInf(b) \/ Abs(a) > (Infinity - 1) \div Abs(b)
    THEN Sign(a) * Sign(b) * Infinity
    ELSE a * b

\* a / b, rounded to the unit
DDiv(a, b) ==
    IF IsNaN(a) \/ IsNaN(b) THEN NaN
    ELSE IF b = 0 THEN (IF a = 0 THEN NaN ELSE Sign(a) * Infinity)
    ELSE IF IsInf(a) THEN (IF IsInf(b) THEN NaN
                          ELSE Sign(a) * Sign(b) * Infinity)
    ELSE IF IsInf(b) THEN 0
    ELSE RoundDiv(a, b)

\* Math.sqrt, rounded down to the unit
DSqrt(a) ==
    IF IsNaN(a) \/ a < 0 THEN NaN
    ELSE IF IsInf(a) THEN Infinity
    ELSE ISqrt(a)

\* Math.max
DMax(a, b) == IF IsNaN(a) \/ IsNaN(b) THEN NaN ELSE IF a < b THEN b ELSE a

\* a < b and a > b: false when either is NaN
DLt(a, b) == ~IsNaN(a) /\ ~IsNaN(b) /\ a < b

DGt(a, b) == DLt(b, a)

\* thousandths in a unit
Milli == 1000

\* const EPSILON = 0.001, in thousandths
EPSILON == 1

\* a / b in thousandths
DRatio(a, b) == DDiv(DMul(a, Milli), b)

\* x + t * dx for t in thousandths
DAlong(x, t, dx) == DAdd(x, DDiv(DMul(t, dx), Milli))

\* pointExistsAt
pointExistsAt(w, x, y) ==
    \E id \in DOMAIN w.st.points :
        /\ DLt(DMul(DAbs(DSub(PointOf(w, id).x, x)), Milli), EPSILON)
        /\ DLt(DMul(DAbs(DSub(PointOf(w, id).y, y)), Milli), EPSILON)

\* segmentSegmentIntersection: the list of the intersection, empty for null;
\* on whole units |denom| < 1e-10 is denom = 0
segmentSegmentIntersection(ax1, ay1, ax2, ay2, bx1, by1, bx2, by2) ==
    LET dx1 == DSub(ax2, ax1)
        dy1 == DSub(ay2, ay1)
        dx2 == DSub(bx2, bx1)
        dy2 == DSub(by2, by1)
        denom == DSub(DMul(dx1, dy2), DMul(dy1, dx2))
        t == DRatio(DSub(DMul(DSub(bx1, ax1), dy2), DMul(DSub(by1, ay1), dx2)),
                    denom)
        u == DRatio(DSub(DMul(DSub(bx1, ax1), dy1), DMul(DSub(by1, ay1), dx1)),
                    denom)
    IN  IF denom = 0 THEN <<>>
        ELSE IF /\ DGt(t, EPSILON) /\ DLt(t, Milli - EPSILON)
                /\ DGt(u, EPSILON) /\ DLt(u, Milli - EPSILON)
        THEN <<[x |-> DAlong(ax1, t, dx1), y |-> DAlong(ay1, t, dy1)]>>
        ELSE <<>>

segmentCircleIntersections(x1, y1, x2, y2, cx, cy, r) ==
    LET dx == DSub(x2, x1)
        dy == DSub(y2, y1)
        fx == DSub(x1, cx)
        fy == DSub(y1, cy)
        a == DAdd(DMul(dx, dx), DMul(dy, dy))
        b == DMul(2, DAdd(DMul(fx, dx), DMul(fy, dy)))
        c == DSub(DAdd(DMul(fx, fx), DMul(fy, fy)), DMul(r, r))
        discriminant == DSub(DMul(b, b), DMul(DMul(4, a), c))
        sqrtDisc == DSqrt(discriminant)
        t1 == DRatio(DSub(DNeg(b), sqrtDisc), DMul(2, a))
        t2 == DRatio(DAdd(DNeg(b), sqrtDisc), DMul(2, a))
    IN  IF DLt(discriminant, 0) THEN <<>>
        ELSE (IF DGt(t1, EPSILON) /\ DLt(t1, Milli - EPSILON)
              THEN <<[x |-> DAlong(x1, t1, dx), y |-> DAlong(y1, t1, dy)]>>
              ELSE <<>>)
             \o (IF /\ DGt(t2, EPSILON) /\ DLt(t2, Milli - EPSILON)
                    /\ DGt(DAbs(DSub(t2, t1)), EPSILON)
                 THEN <<[x |-> DAlong(x1, t2, dx), y |-> DAlong(y1, t2, dy)]>>
                 ELSE <<>>)

circleCircleIntersections(cx1, cy1, r1, cx2, cy2, r2) ==
    LET ex == DSub(cx2, cx1)
        ey == DSub(cy2, cy1)
        d == DSqrt(DAdd(DMul(ex, ex), DMul(ey, ey)))
        a == DDiv(DAdd(DSub(DMul(r1, r1), DMul(r2, r2)), DMul(d, d)),
                  DMul(2, d))
        h == DSqrt(DMax(0, DSub(DMul(r1, r1), DMul(a, a))))
        px == DAdd(cx1, DDiv(DMul(a, ex), d))
        py == DAdd(cy1, DDiv(DMul(a, ey), d))
    IN  IF \/ DGt(d, DAdd(r1, r2))
           \/ DLt(d, DAbs(DSub(r1, r2)))
           \/ DLt(DMul(d, Milli), EPSILON)
        THEN <<>>
        ELSE IF DLt(DMul(h, Milli), EPSILON) THEN <<[x |-> px, y |-> py]>>
        ELSE <<[x |-> DAdd(px, DDiv(DMul(h, ey), d)),
                y |-> DSub(py, DDiv(DMul(h, ex), d))],
               [x |-> DSub(px, DDiv(DMul(h, ey), d)),
                y |-> DAdd(py, DDiv(DMul(h, ex), d))]>>

\* getCircleCenterRadius of state.ts: the list of the data, empty for null
circleCenterRadius(w, circle) ==
    IF /\ circle.centerId # NULL
       /\ HasPoint(w, circle.centerId)
       /\ circle.radius # NULL
       /\ ~IsNaN(circle.radius)
    THEN <<[cx |-> PointOf(w, circle.centerId).x,
            cy |-> PointOf(w, circle.centerId).y, r |-> circle.radius]>>
    ELSE <<>>

\* Array.from(map.values()): the Map iterates in insertion order, which is
\* the order of the ids
Values(map) == [i \in DOMAIN Sorted(DOMAIN map) |-> map[Sorted(DOMAIN map)[i]]]

\* for (i = 0 ..) for (j = i + 1 ..)
Pairs(n) ==
    Concat([i \in 1 .. n |-> [k \in 1 .. (n - i) |-> <<i, i + k>>]])

\* the intersections the three loops of findAllIntersections compute, in
\* the order in which they compute them; the points created on the way
\* belong to no segment and to no circle, so they change no intersection
Intersections(w) ==
    LET segments == Values(w.st.segments)
        circles == Values(w.st.circles)
        ofSegments(s1, s2) ==
            IF \E id \in {s1.p1, s1.p2, s2.p1, s2.p2} : ~HasPoint(w, id)
            THEN <<>>
            ELSE segmentSegmentIntersection(
                     PointOf(w, s1.p1).x, PointOf(w, s1.p1).y,
                     PointOf(w, s1.p2).x, PointOf(w, s1.p2).y,
                     PointOf(w, s2.p1).x, PointOf(w, s2.p1).y,
                     PointOf(w, s2.p2).x, PointOf(w, s2.p2).y)
        ofSegmentCircle(seg, circle) ==
            IF ~HasPoint(w, seg.p1) \/ ~HasPoint(w, seg.p2) THEN <<>>
            ELSE Concat([k \in DOMAIN circleCenterRadius(w, circle) |->
                     segmentCircleIntersections(
                         PointOf(w, seg.p1).x, PointOf(w, seg.p1).y,
                         PointOf(w, seg.p2).x, PointOf(w, seg.p2).y,
                         circleCenterRadius(w, circle)[k].cx,
                         circleCenterRadius(w, circle)[k].cy,
                         circleCenterRadius(w, circle)[k].r)])
        ofCircles(c1, c2) ==
            IF circleCenterRadius(w, c1) = <<>> \/ circleCenterRadius(w, c2) = <<>>
            THEN <<>>
            ELSE circleCircleIntersections(
                     circleCenterRadius(w, c1)[1].cx,
                     circleCenterRadius(w, c1)[1].cy,
                     circleCenterRadius(w, c1)[1].r,
                     circleCenterRadius(w, c2)[1].cx,
                     circleCenterRadius(w, c2)[1].cy,
                     circleCenterRadius(w, c2)[1].r)
    IN  Concat([k \in DOMAIN Pairs(Len(segments)) |->
                   ofSegments(segments[Pairs(Len(segments))[k][1]],
                              segments[Pairs(Len(segments))[k][2]])])
        \o Concat([i \in DOMAIN segments |->
                      Concat([j \in DOMAIN circles |->
                                 ofSegmentCircle(segments[i], circles[j])])])
        \o Concat([k \in DOMAIN Pairs(Len(circles)) |->
                      ofCircles(circles[Pairs(Len(circles))[k][1]],
                                circles[Pairs(Len(circles))[k][2]])])

\* `if (!pointExistsAt(state, pt.x, pt.y)) newPoints.push(addPoint(...))`
\* for the intersections from the i-th on
RECURSIVE AddIntersections(_, _, _, _)
AddIntersections(w, found, i, newPoints) ==
    IF i > Len(found) THEN [w |-> w, ret |-> newPoints]
    ELSE IF pointExistsAt(w, found[i].x, found[i].y)
    THEN AddIntersections(w, found, i + 1, newPoints)
    ELSE With(addPoint(w, found[i].x, found[i].y), LAMBDA pt :
             AddIntersections(pt.w, found, i + 1, Push(newPoints, pt.ret)))

\* mutant: the points created become children of every segment and circle
findAllIntersections_Owned(w) ==
    With(AddIntersections(w, Intersections(w), 1, <<>>), LAMBDA r :
        [w |-> [r.w EXCEPT
                   !.st.segments = [id \in DOMAIN @ |->
                       [@[id] EXCEPT !.childrenIds = @ \o r.ret]],
                   !.st.circles = [id \in DOMAIN @ |->
                       [@[id] EXCEPT !.childrenIds = @ \o r.ret]]],
         ret |-> r.ret])

\* findAllIntersections: returns the world and the ids of the new points
findAllIntersections(w) == AddIntersections(w, Intersections(w), 1, <<>>)

-----------------------------------------------------------------------------
(* Segments and circles drawn on four points, the corners of a square, with *)
(* findAllIntersections called at any time, as App.tsx calls it after every *)
(* click and every submitted radius.                                        *)

\* ids allocated in one behaviour of the drawing
MaxCrossId == 12

\* segments and circles drawn
MaxShapes == 3

CrossCoords == <<(<<0, 0>>), (<<10, 10>>), (<<0, 10>>), (<<10, 0>>)>>

\* parseFloat(hudInput.radius) with r > 0: "5", "10", "Infinity"
CrossRadii == {5, 10, Infinity}

RECURSIVE CrossWorld(_)
CrossWorld(n) ==
    IF n = 0
    THEN [idCounter |-> 0, labelCounter |-> 0, pheap |-> <<>>,
          st |-> createInitialState]
    ELSE addPoint(CrossWorld(n - 1), CrossCoords[n][1], CrossCoords[n][2]).w

CrossInit ==
    /\ idCounter = CrossWorld(Len(CrossCoords)).idCounter
    /\ labelCounter = CrossWorld(Len(CrossCoords)).labelCounter
    /\ pheap = CrossWorld(Len(CrossCoords)).pheap
    /\ vheap = <<>>
    /\ state = CrossWorld(Len(CrossCoords)).st
    /\ call = [op |-> "addPoint", args |-> CrossCoords[Len(CrossCoords)],
               ret |-> Len(CrossCoords)]
    /\ frame = IdleFrame
    /\ entry = NoEntry

CrossReturns(r, op, args) ==
    /\ r.w.idCounter <= MaxCrossId
    /\ idCounter' = r.w.idCounter
    /\ labelCounter' = r.w.labelCounter
    /\ pheap' = r.w.pheap
    /\ state' = r.w.st
    /\ call' = [op |-> op, args |-> args, ret |-> r.ret]
    /\ UNCHANGED solverVars

Shapes == Cardinality(DOMAIN state.segments) + Cardinality(DOMAIN state.circles)

CrossAddSegmentTwoPoints ==
    /\ Shapes < MaxShapes
    /\ \E p1Id \in DOMAIN CrossCoords, p2Id \in DOMAIN CrossCoords :
           /\ p1Id < p2Id
           /\ CrossReturns(addSegmentTwoPoints(World, p1Id, p2Id),
                           "addSegmentTwoPoints", <<p1Id, p2Id>>)

CrossAddCircleRadius ==
    /\ Shapes < MaxShapes
    /\ \E centerId \in DOMAIN CrossCoords, radius \in CrossRadii :
           CrossReturns(addCircleRadius(World, centerId, radius),
                        "addCircleRadius", <<centerId, radius>>)

FindAllIntersections ==
    /\ idCounter <= MaxCrossId
    /\ CrossReturns(findAllIntersections(World), "findAllIntersections", <<>>)

CrossNext ==
    \/ CrossAddSegmentTwoPoints
    \/ CrossAddCircleRadius
    \/ FindAllIntersections

CrossSpec == CrossInit /\ [][CrossNext]_vars

-----------------------------------------------------------------------------------------------------------------------------------------------------
(* Drawings on the corners of the square, with findAllIntersections and    *)
(* deleteEntity called in any order: the points with ids above             *)
(* Len(CrossCoords) are those that findAllIntersections created.           *)

\* ids allocated in one behaviour
MaxDerivedId == 12

\* the two diagonals; the side (0,0)-(10,0) and the circle around (0,0) with
\* radius 5; the circles with radius 10 around (0,0) and (10,0); the
\* diagonals and a circle with radius 5 around (0,0)
DerivedDrawings ==
    LET corners == CrossWorld(Len(CrossCoords))
        diagonals == addSegmentTwoPoints(addSegmentTwoPoints(corners, 1, 2).w,
                                         3, 4).w
    IN  {diagonals,
         addCircleRadius(addSegmentTwoPoints(corners, 1, 4).w, 1, 5).w,
         addCircleRadius(addCircleRadius(corners, 1, 10).w, 4, 10).w,
         addCircleRadius(diagonals, 1, 5).w}

DerivedInit ==
    \E w \in DerivedDrawings :
        /\ idCounter = w.idCounter
        /\ labelCounter = w.labelCounter
        /\ pheap = w.pheap
        /\ vheap = <<>>
        /\ state = w.st
        /\ call = [op |-> "createInitialState", args |-> <<>>, ret |-> NULL]
        /\ frame = IdleFrame
        /\ entry = NoEntry

DerivedReturns(r, op, args) ==
    /\ idCounter' = r.w.idCounter
    /\ labelCounter' = r.w.labelCounter
    /\ pheap' = r.w.pheap
    /\ state' = r.w.st
    /\ call' = [op |-> op, args |-> args, ret |-> r.ret]
    /\ UNCHANGED solverVars

\* findAllIntersections(state)
DerivedFindAllIntersections ==
    /\ idCounter < MaxDerivedId
    /\ DerivedReturns(findAllIntersections(World), "findAllIntersections", <<>>)

\* deleteEntity(state, id) for an entity of the store
DerivedDeleteEntity ==
    /\ idCounter <= MaxDerivedId
    /\ \E id \in Live :
           DerivedReturns([w |-> deleteEntity(World, id), ret |-> NULL],
                          "deleteEntity", <<id>>)

DerivedNext ==
    \/ DerivedFindAllIntersections
    \/ DerivedDeleteEntity

DerivedSpec == DerivedInit /\ [][DerivedNext]_vars

-----------------------------------------------------------------------------
(* App.tsx, the paths that create a constraint: a click on a segment or a  *)
(* circle with one point selected (handleCanvasClick, CONSTRAINT tool) and *)
(* the Create button of the constraint dialog.  `state` is the React state, *)
(* newState the handler's copy of it: new Maps and a new constraints array  *)
(* that hold the Point and Variable objects of `state`.  A handler is       *)
(* followed call by call: up to validateConstraint, the trial solve, the    *)
(* branch on its result, the real solve, and the end of the handler.        *)

\* ids allocated before the last attempt starts
MaxUiId == 6

\* state.ts is imported by App.tsx with addConstraint: the constraint is
\* appended to state.constraints
addConstraint(st, constraint) ==
    [st EXCEPT !.constraints = Push(@, constraint)]

\* String.prototype.trim
RECURSIVE trim(_)
trim(str) ==
    IF str = <<>> THEN str
    ELSE IF Head(str) \in SpaceChars THEN trim(Tail(str))
    ELSE IF str[Len(str)] \in SpaceChars THEN trim(SubSeq(str, 1, Len(str) - 1))
    ELSE str

\* what the dialog holds when Create is pressed: its type, the two points
\* selected when it opened, and the text typed
DialogInputs ==
    {[type |-> "DISTANCE", pointIds |-> <<1, 5>>, expression |-> <<"x">>],
     [type |-> "ANGLE", pointIds |-> <<1, 2>>, expression |-> <<" ", "x">>],
     [type |-> "ANGLE", pointIds |-> <<1, 2>>, expression |-> <<"a", " ">>],
     [type |-> "EQUATION", pointIds |-> <<1, 5>>, expression |-> <<"x">>],
     [type |-> "EQUATION", pointIds |-> <<1, 2>>, expression |-> <<"(", "x">>],
     [type |-> "DISTANCE", pointIds |-> <<1, 5>>, expression |-> <<" ">>]}

\* no handler is running
UiIdle == call.op \in {"createInitialState", "setState", "alert"}

\* the sketch without constraints; a is too large for the ANGLE case
UiInit ==
    \E floating \in SUBSET FloatingPoints, isDetermined \in BOOLEAN :
        /\ idCounter = SketchWorld.idCounter
        /\ labelCounter = SketchWorld.labelCounter
        /\ pheap = [r \in DOMAIN SketchWorld.pheap |->
                       [SketchWorld.pheap[r] EXCEPT
                           !.isFloating = (SketchWorld.pheap[r].id \in floating)]]
        /\ vheap = <<[name |-> XName, value |-> 2,
                      isDetermined |-> isDetermined],
                     [name |-> AName, value |-> Huge, isDetermined |-> FALSE]>>
        /\ state = [points |-> SketchWorld.st.points,
                    segments |-> SketchWorld.st.segments,
                    circles |-> SketchWorld.st.circles,
                    arcs |-> <<>>,
                    variables |-> [n \in {XName, AName} |->
                                      IF n = XName THEN 1 ELSE 2],
                    constraints |-> <<>>]
        /\ call = [op |-> "createInitialState", args |-> <<>>, ret |-> Pending]
        /\ frame = IdleFrame
        /\ entry = NoEntry

\* `if (validateConstraint(newState, newConstraint))`
Kept_Always(ret) == TRUE

Kept(ret) == ret.valid

\* the points marked are made floating, then validateConstraint(newState,
\* newConstraint) is called
Validate(newConstraint, marked, path, wasFloating) ==
    LET ph == [r \in DOMAIN pheap |->
                  IF pheap[r].id \in marked
                  THEN [pheap[r] EXCEPT !.isFloating = TRUE]
                  ELSE pheap[r]]
        t == trialState(state, ph, vheap, newConstraint)
    IN  /\ idCounter' = idCounter + 1
        /\ frame' = Enter(t.st)
        /\ pheap' = t.pheap
        /\ vheap' = t.vheap
        /\ entry' = Snapshot
        /\ call' = [op |-> "validateConstraint", args |-> <<newConstraint>>,
                    ret |-> Pending, path |-> path,
                    wasFloating |-> wasFloating, newState |-> state]
        /\ UNCHANGED <<labelCounter, state>>

\* handleCanvasClick, CONSTRAINT tool: one point is selected and the click
\* hits a segment
ClickOnSegment ==
    /\ UiIdle
    /\ idCounter < MaxUiId
    /\ \E selectedPointId \in DOMAIN state.points,
          hitSeg \in DOMAIN state.segments :
           /\ ~(\/ state.segments[hitSeg].p1 = selectedPointId
                \/ state.segments[hitSeg].p2 = selectedPointId)
           /\ Validate(Constraint(idCounter + 1, "POINT_ON_SEGMENT",
                                  <<selectedPointId>>, hitSeg, <<>>),
                       {selectedPointId}, "canvas",
                       pheap[state.points[selectedPointId]].isFloating)

\* handleCanvasClick, CONSTRAINT tool: one point is selected and the click
\* hits a circle
ClickOnCircle ==
    /\ UiIdle
    /\ idCounter < MaxUiId
    /\ \E selectedPointId \in DOMAIN state.points,
          hitCircle \in DOMAIN state.circles :
           /\ ~(\/ state.circles[hitCircle].centerId = selectedPointId
                \/ selectedPointId \in Range(state.circles[hitCircle].pointIds))
           /\ Validate(Constraint(idCounter + 1, "POINT_ON_CIRCLE",
                                  <<selectedPointId>>, hitCircle, <<>>),
                       {selectedPointId}, "canvas",
                       pheap[state.points[selectedPointId]].isFloating)

\* the Create button of the constraint dialog
DialogCreate ==
    /\ UiIdle
    /\ idCounter < MaxUiId
    /\ \E constraintDialog \in DialogInputs :
           /\ trim(constraintDialog.expression) # <<>>
           /\ Validate(Constraint(idCounter + 1, constraintDialog.type,
                                  constraintDialog.pointIds, NULL,
                                  trim(constraintDialog.expression)),
                       Range(constraintDialog.pointIds) \cap DOMAIN state.points,
                       "dialog", FALSE)

\* validateConstraint returned true: addConstraint(newState, newConstraint),
\* then solve(newState) is called
Keeps ==
    /\ call.op = "validateConstraint"
    /\ frame.pc = "done"
    /\ Kept(call.ret)
    /\ With(addConstraint(call.newState, call.args[1]), LAMBDA newState :
           /\ frame' = Enter(newState)
           /\ call' = [call EXCEPT !.op = "solve", !.ret = Pending,
                                   !.newState = newState])
    /\ UNCHANGED <<idCounter, labelCounter, pheap, vheap, state, entry>>

\* the end of handleCanvasClick on the heap ph:
\* findAllIntersections(newState); setState(newState)
SetState(ph) ==
    With(findAllIntersections([idCounter |-> idCounter,
                               labelCounter |-> labelCounter,
                               pheap |-> ph, st |-> call.newState]),
         LAMBDA r :
            /\ idCounter' = r.w.idCounter
            /\ labelCounter' = r.w.labelCounter
            /\ pheap' = r.w.pheap
            /\ state' = r.w.st
            /\ call' = [op |-> "setState", args |-> call.args, ret |-> r.ret]
            /\ frame' = IdleFrame
            /\ UNCHANGED <<vheap, entry>>)

\* handleCanvasClick, validateConstraint returned false: the floating flag
\* is put back
ClickRejects ==
    /\ call.op = "validateConstraint"
    /\ frame.pc = "done"
    /\ call.path = "canvas"
    /\ ~Kept(call.ret)
    /\ SetState([pheap EXCEPT
                    ![state.points[call.args[1].pointIds[1]]].isFloating =
                        call.wasFloating])

\* the dialog, validateConstraint returned false: alert(...)
DialogRejects ==
    /\ call.op = "validateConstraint"
    /\ frame.pc = "done"
    /\ call.path = "dialog"
    /\ ~Kept(call.ret)
    /\ call' = [op |-> "alert", args |-> call.args, ret |-> NULL]
    /\ frame' = IdleFrame
    /\ UNCHANGED <<idCounter, labelCounter, pheap, vheap, state, entry>>

\* handleCanvasClick after solve(newState)
ClickPublishes ==
    /\ call.op = "solve"
    /\ frame.pc = "done"
    /\ call.path = "canvas"
    /\ SetState(pheap)

\* the dialog after solve(newState): setState(newState)
DialogPublishes ==
    /\ call.op = "solve"
    /\ frame.pc = "done"
    /\ call.path = "dialog"
    /\ state' = call.newState
    /\ call' = [op |-> "setState", args |-> call.args, ret |-> <<>>]
    /\ frame' = IdleFrame
    /\ UNCHANGED <<idCounter, labelCounter, pheap, vheap, entry>>

UiNext ==
    \/ ClickOnSegment
    \/ ClickOnCircle
    \/ DialogCreate
    \/ Keeps
    \/ ClickRejects
    \/ DialogRejects
    \/ ClickPublishes
    \/ DialogPublishes
    \/ SolveStart
    \/ SolveIterate
    \/ SolveExit
    \/ WrapTest
    \/ WrapBody

UiSpec == UiInit /\ [][UiNext]_vars

-----------------------------------------------------------------------------
(* computeResidual and applyParams on a store that entities are deleted    *)
(* from while its constraints, its arcs and the solver's parameter template *)
(* stay as they were.                                                       *)

\* the sketch with D(2,5) and the circle through A, B and C: D has id 6, the
\* center of the circle 7 and the circle 8
StaleWorld == addCircleThreePoints(addPoint(SketchWorld, 2, 5).w, 1, 2, 5).w

\* an arc of the circle around A from B to C, and one of the circle through
\* A, B, C from A to B
StaleArcs ==
    (9 :> [id |-> 9, circleId |-> 4, startId |-> 2, endId |-> 5,
           childrenIds |-> <<>>])
    @@ (10 :> [id |-> 10, circleId |-> 8, startId |-> 1, endId |-> 2,
               childrenIds |-> <<>>])

ZName == <<"z">>

\* constraints of every kind; y is no variable of the store and z has the
\* value null
StaleConstraints ==
    <<Constraint(11, "DISTANCE", <<1, 5>>, NULL, <<"x">>),
      Constraint(12, "DISTANCE", <<1, 6>>, NULL, <<"y">>),
      Constraint(13, "DISTANCE", <<2, 6>>, NULL, <<>>),
      Constraint(14, "ANGLE", <<1, 2>>, NULL, <<"x">>),
      Constraint(15, "ANGLE", <<5, 6>>, NULL, <<"z">>),
      Constraint(16, "POINT_ON_SEGMENT", <<6>>, 3, <<>>),
      Constraint(17, "POINT_ON_CIRCLE", <<6>>, 4, <<>>),
      Constraint(18, "POINT_ON_CIRCLE", <<6>>, 8, <<>>),
      Constraint(19, "POINT_ON_ARC", <<6>>, 9, <<>>),
      Constraint(20, "POINT_ON_ARC", <<6>>, 10, <<>>),
      Constraint(21, "EQUATION", <<>>, NULL, <<"x">>),
      Constraint(22, "EQUATION", <<>>, NULL, <<"x", "+", "y">>),
      Constraint(23, "EQUATION", <<>>, NULL, <<>>)>>

\* the parameters solve collected when C and D were floating and x and a
\* variable that is no longer in the store were determined, moved by a step
StaleTemplates ==
    {[pointCoords |->
          <<[pointId |-> 5, coord |-> "x", value |-> 1 + d],
            [pointId |-> 5, coord |-> "y", value |-> 2 + d],
            [pointId |-> 6, coord |-> "x", value |-> 2 + d],
            [pointId |-> 6, coord |-> "y", value |-> 5 + d]>>,
      variableValues |->
          <<[name |-> XName, value |-> 2 + d],
            [name |-> AName, value |-> 90 + d]>>] : d \in {0, 1}}

StaleInit ==
    /\ idCounter = StaleWorld.idCounter + Cardinality(DOMAIN StaleArcs)
                       + Len(StaleConstraints)
    /\ labelCounter = StaleWorld.labelCounter
    /\ pheap = [r \in DOMAIN StaleWorld.pheap |->
                   [StaleWorld.pheap[r] EXCEPT
                       !.isFloating = (StaleWorld.pheap[r].id \in {5, 6})]]
    /\ vheap = <<[name |-> XName, value |-> 2, isDetermined |-> TRUE],
                 [name |-> ZName, value |-> NoValue, isDetermined |-> FALSE]>>
    /\ state = [points |-> StaleWorld.st.points,
                segments |-> StaleWorld.st.segments,
                circles |-> StaleWorld.st.circles,
                arcs |-> StaleArcs,
                variables |-> [n \in {XName, ZName} |->
                                  IF n = XName THEN 1 ELSE 2],
                constraints |-> StaleConstraints]
    /\ call = [op |-> "createInitialState", args |-> <<>>, ret |-> NULL]
    /\ frame = IdleFrame
    /\ entry = NoEntry

\* deleteEntity(state, id) on an entity of the store
StaleDeleteEntity ==
    /\ frame.pc = "idle"
    /\ \E id \in (DOMAIN state.points) \cup (DOMAIN state.segments)
                    \cup (DOMAIN state.circles) :
        With(deleteEntity(World, id), LAMBDA w :
            /\ state' = w.st
            /\ pheap' = [r \in {w.st.points[i] : i \in DOMAIN w.st.points} |->
                            w.pheap[r]]
            /\ call' = [op |-> "deleteEntity", args |-> <<id>>, ret |-> NULL]
            /\ UNCHANGED <<idCounter, labelCounter, vheap, frame, entry>>)

\* computeResidual(constraint, state) for a constraint of the store
ComputeResidual ==
    \E j \in DOMAIN state.constraints :
        /\ call' = [op |-> "computeResidual", args |-> <<state.constraints[j]>>,
                    ret |-> computeResidual(state.constraints[j], state,
                                            pheap, vheap)]
        /\ UNCHANGED <<idCounter, labelCounter, pheap, vheap, state, frame,
                       entry>>

\* applyParams(state, params)
ApplyParams ==
    /\ frame.pc = "idle"
    /\ \E params \in StaleTemplates :
        With(applyParams(state, pheap, vheap, params), LAMBDA applied :
            /\ pheap' = applied.pheap
            /\ vheap' = applied.vheap
            /\ call' = [op |-> "applyParams", args |-> <<params>>, ret |-> NULL]
            /\ UNCHANGED <<idCounter, labelCounter, state, frame, entry>>)

StaleNext ==
    \/ StaleDeleteEntity
    \/ ComputeResidual
    \/ ApplyParams

StaleSpec == StaleInit /\ [][StaleNext]_vars

-----------------------------------------------------------------------------
(* solve and findAllIntersections on a store with circles of every         *)
(* construction, whose defining points the solver moves.                   *)

\* ids allocated in one behaviour
MaxFrozenId == 18

\* the store of StaleWorld with the circle around B through D, of id 9
FrozenWorld == addCircleCircumference(StaleWorld, 2, 6).w

\* the constraints of the store and the points that float: C, which the
\* circle 8 is drawn through, or D, the circumference point of circle 9
FrozenSketches ==
    {[constraints |-> <<Constraint(10, "DISTANCE", <<1, 5>>, NULL, <<"x">>)>>,
      floating |-> {5}],
     [constraints |-> <<Constraint(10, "POINT_ON_SEGMENT", <<5>>, 3, <<>>)>>,
      floating |-> {5}],
     [constraints |-> <<Constraint(10, "DISTANCE", <<2, 6>>, NULL, <<"x">>)>>,
      floating |-> {6}],
     [constraints |-> <<Constraint(10, "POINT_ON_CIRCLE", <<6>>, 8, <<>>)>>,
      floating |-> {5, 6}]}

FrozenInit ==
    \E sketch \in FrozenSketches :
        /\ idCounter = FrozenWorld.idCounter + 1
        /\ labelCounter = FrozenWorld.labelCounter
        /\ pheap = [r \in DOMAIN FrozenWorld.pheap |->
                       [FrozenWorld.pheap[r] EXCEPT
                           !.isFloating =
                               (FrozenWorld.pheap[r].id \in sketch.floating)]]
        /\ vheap = <<[name |-> XName, value |-> 4, isDetermined |-> FALSE]>>
        /\ state = [points |-> FrozenWorld.st.points,
                    segments |-> FrozenWorld.st.segments,
                    circles |-> FrozenWorld.st.circles,
                    arcs |-> <<>>,
                    variables |-> [n \in {XName} |-> 1],
                    constraints |-> sketch.constraints]
        /\ call = [op |-> "createInitialState", args |-> <<>>, ret |-> Pending]
        /\ frame = IdleFrame
        /\ entry = NoEntry

\* findAllIntersections(state), before solve is called or after it returned
FrozenFindAllIntersections ==
    /\ frame.pc \in {"idle", "done"}
    /\ With(findAllIntersections(World), LAMBDA r :
           /\ r.w.idCounter <= MaxFrozenId
           /\ idCounter' = r.w.idCounter
           /\ labelCounter' = r.w.labelCounter
           /\ pheap' = r.w.pheap
           /\ state' = r.w.st
           /\ call' = [op |-> "findAllIntersections", args |-> <<>>,
                       ret |-> r.ret]
           /\ UNCHANGED <<vheap, frame, entry>>)

FrozenNext ==
    \/ CallSolve
    \/ SolveStart
    \/ SolveIterate
    \/ SolveExit
    \/ FrozenFindAllIntersections

FrozenSpec == FrozenInit /\ [][FrozenNext]_vars

-----------------------------------------------------------------------------
(* computeResidual for POINT_ON_ARC: a circle of radius 5 around O(0,0),   *)
(* the four points where it meets the axes, an arc between two of them,    *)
(* and a point P that applyParams puts anywhere on the circle.             *)

\* screen coordinates (y grows downwards) of E, S, W, N on the circle
ArcEnds == <<(<<5, 0>>), (<<0, 5>>), (<<-5, 0>>), (<<0, -5>>)>>

\* where P is put: the points of the circle with whole coordinates
ArcPositions ==
    {pos \in (-5 .. 5) \X (-5 .. 5) : pos[1] * pos[1] + pos[2] * pos[2] = 25}

\* O with id 1, E, S, W, N with ids 2 .. 5, P with id 6, the circle with id 7
RECURSIVE ArcPoints(_)
ArcPoints(n) ==
    IF n = 0 THEN addPoint(EmptyWorld, 0, 0).w
    ELSE addPoint(ArcPoints(n - 1), ArcEnds[n][1], ArcEnds[n][2]).w

ArcWorld == addCircleRadius(addPoint(ArcPoints(4), 5, 0).w, 1, 5).w

ArcInit ==
    \E startId \in 2 .. 5, endId \in 2 .. 5 :
        /\ startId # endId
        /\ idCounter = ArcWorld.idCounter + 2
        /\ labelCounter = ArcWorld.labelCounter
        /\ pheap = [ArcWorld.pheap EXCEPT ![ArcWorld.st.points[6]].isFloating = TRUE]
        /\ vheap = <<>>
        /\ state = [points |-> ArcWorld.st.points,
                    segments |-> ArcWorld.st.segments,
                    circles |-> ArcWorld.st.circles,
                    arcs |-> (8 :> [id |-> 8, circleId |-> 7,
                                    startId |-> startId, endId |-> endId,
                                    childrenIds |-> <<>>]),
                    variables |-> <<>>,
                    constraints |->
                        <<Constraint(9, "POINT_ON_ARC", <<6>>, 8, <<>>)>>]
        /\ call = [op |-> "createInitialState", args |-> <<>>, ret |-> NULL]
        /\ frame = IdleFrame
        /\ entry = NoEntry

\* applyParams(state, params) with the parameters of P
ArcApplyParams ==
    /\ frame.pc = "idle"
    /\ \E pos \in ArcPositions :
        With([pointCoords |->
                  <<[pointId |-> 6, coord |-> "x", value |-> pos[1]],
                    [pointId |-> 6, coord |-> "y", value |-> pos[2]]>>,
              variableValues |-> <<>>], LAMBDA params :
            /\ pheap' = applyParams(state, pheap, vheap, params).pheap
            /\ call' = [op |-> "applyParams", args |-> <<params>>, ret |-> NULL]
            /\ UNCHANGED <<idCounter, labelCounter, vheap, state, frame, entry>>)

ArcNext ==
    \/ ArcApplyParams
    \/ ComputeResidual

ArcSpec == ArcInit /\ [][ArcNext]_vars

-----------------------------------------------------------------------------
(* computeResidual for ANGLE: the points A(0,0) and B, and the constraint  *)
(* that the direction from A to B is a degrees; applyParams puts B and     *)
(* sets a.                                                                  *)

\* where B is put
AngleEnds == {-4, 0, 4} \X {-4, 0, 4}

\* the values a is given; Huge stands for a value beyond every wrap
AngleTargets == {-540, -360, -270, -180, -90, 0, 90, 180, 270, 360, 540, Huge}

\* A with id 1 and B with id 2
AngleWorld == addPoint(addPoint(EmptyWorld, 0, 0).w, 4, 0).w

AngleInit ==
    \E target \in AngleTargets :
        /\ idCounter = AngleWorld.idCounter + 1
        /\ labelCounter = AngleWorld.labelCounter
        /\ pheap = [AngleWorld.pheap EXCEPT ![AngleWorld.st.points[2]].isFloating = TRUE]
        /\ vheap = <<[name |-> AName, value |-> target, isDetermined |-> TRUE]>>
        /\ state = [points |-> AngleWorld.st.points,
                    segments |-> <<>>,
                    circles |-> <<>>,
                    arcs |-> <<>>,
                    variables |-> [n \in {AName} |-> 1],
                    constraints |->
                        <<Constraint(3, "ANGLE", <<1, 2>>, NULL, AName)>>]
        /\ call = [op |-> "createInitialState", args |-> <<>>, ret |-> NULL]
        /\ frame = IdleFrame
        /\ entry = NoEntry

\* the parameters of B and a
AngleParams(pos, target) ==
    [pointCoords |-> <<[pointId |-> 2, coord |-> "x", value |-> pos[1]],
                       [pointId |-> 2, coord |-> "y", value |-> pos[2]]>>,
     variableValues |-> <<[name |-> AName, value |-> target]>>]

\* applyParams(state, params) with the parameters of B and a
AngleApplyParams ==
    /\ frame.pc = "idle"
    /\ \E pos \in AngleEnds, target \in AngleTargets :
        /\ pheap' = applyParams(state, pheap, vheap,
                                AngleParams(pos, target)).pheap
        /\ vheap' = applyParams(state, pheap, vheap,
                                AngleParams(pos, target)).vheap
        /\ call' = [op |-> "applyParams",
                    args |-> <<AngleParams(pos, target)>>, ret |-> NULL]
        /\ UNCHANGED <<idCounter, labelCounter, state, frame, entry>>

\* computeResidual(constraint, state) for the ANGLE constraint: it returns
\* unless its loops cannot reduce the difference
AngleComputeResidual ==
    /\ frame.pc = "idle"
    /\ \E j \in DOMAIN state.constraints :
        /\ call' = IF Stuck(state.constraints[j], state, pheap, vheap)
                   THEN [op |-> "computeResidual",
                         args |-> <<state.constraints[j]>>,
                         returns |-> FALSE, ret |-> NULL]
                   ELSE [op |-> "computeResidual",
                         args |-> <<state.constraints[j]>>,
                         returns |-> TRUE,
                         ret |-> computeResidual(state.constraints[j], state,
                                                 pheap, vheap)]
        /\ UNCHANGED <<idCounter, labelCounter, pheap, vheap, state, frame,
                       entry>>

AngleNext ==
    \/ AngleApplyParams
    \/ AngleComputeResidual

AngleSpec == AngleInit /\ [][AngleNext]_vars

-----------------------------------------------------------------------------
(* Properties of the entity store *)

LiveIds(st) == (DOMAIN st.points) \cup (DOMAIN st.segments)
                   \cup (DOMAIN st.circles)

\* the childrenIds array of the live entity id
ChildrenIdsOf(st, ph, id) ==
    IF id \in DOMAIN st.points THEN ph[st.points[id]].childrenIds
    ELSE IF id \in DOMAIN st.segments THEN st.segments[id].childrenIds
    ELSE st.circles[id].childrenIds

\* the entities the construction of the live entity id referred to
ParentsOf(st, id) ==
    IF id \in DOMAIN st.segments
    THEN {st.segments[id].p1, st.segments[id].p2}
             \cup ({st.segments[id].refSegmentId} \ {NULL})
    ELSE IF id \in DOMAIN st.circles
    THEN ({st.circles[id].centerId} \ {NULL}) \cup Range(st.circles[id].pointIds)
    ELSE {}

\* C1: the store is free of dangling ids: every id held by a field of a live
\* entity (endpoints, reference segment, center, defining points, children)
\* is the id of a live entity, also after deleteEntity has run.
C1_NoDanglingIds ==
    \A id \in LiveIds(state) :
        ParentsOf(state, id) \cup Range(ChildrenIdsOf(state, pheap, id))
            \subseteq LiveIds(state)

\* C7: the childrenIds of every live entity P hold exactly the live entities
\* whose construction referred to P, each of them once.
C7_ChildrenExact ==
    \A P \in LiveIds(state) :
        LET ch == ChildrenIdsOf(state, pheap, P)
        IN  /\ Range(ch) = {e \in LiveIds(state) : P \in ParentsOf(state, e)}
            /\ Cardinality(Range(ch)) = Len(ch)

\* C8: the two endpoints of every segment in the store are distinct ids.
C8_DistinctEndpoints ==
    \A s \in DOMAIN state.segments :
        state.segments[s].p1 # state.segments[s].p2

Constructors ==
    {"addSegmentTwoPoints", "addSegmentAbsAngle", "addSegmentRelAngle",
     "addCircleRadius", "addCircleCircumference", "addCircleThreePoints"}

\* the positions of the arguments of a constructor call that name a point
\* and a segment its construction refers to
PointParams(op) ==
    CASE op = "addSegmentTwoPoints" -> {1, 2}
      [] op = "addSegmentAbsAngle" -> {1}
      [] op = "addSegmentRelAngle" -> {1}
      [] op = "addCircleRadius" -> {1}
      [] op = "addCircleCircumference" -> {1, 2}
      [] op = "addCircleThreePoints" -> {1, 2, 3}

SegmentParams(op) == IF op = "addSegmentRelAngle" THEN {2} ELSE {}

\* the call c refers to a parent that the store st does not hold
MissingParent(st, c) ==
    \/ \E i \in PointParams(c.op) : c.args[i] \notin DOMAIN st.points
    \/ \E i \in SegmentParams(c.op) : c.args[i] \notin DOMAIN st.segments

\* three points on one line (or not three different points)
Collinear(a, b, c) ==
    (b.x - a.x) * (c.y - a.y) - (b.y - a.y) * (c.x - a.x) = 0

Degenerate(st, ph, c) ==
    /\ c.op = "addCircleThreePoints"
    /\ ~MissingParent(st, c)
    /\ Collinear(ph[st.points[c.args[1]]], ph[st.points[c.args[2]]],
                 ph[st.points[c.args[3]]])

\* C6: a constructor call that names a missing parent, or addCircleThreePoints
\* on collinear or repeated points, returns null, and a constructor call that
\* returns null leaves the store, the heap and both counters as they were.
C6_FailedConstructorNoEffect ==
    [][call'.op \in Constructors =>
          /\ (MissingParent(state, call') \/ Degenerate(state, pheap, call'))
                 => call'.ret = NULL
          /\ call'.ret = NULL => UNCHANGED storeVars]_vars

\* addCircleThreePoints has just failed on three different live points
C6_Witness ==
    /\ call.op = "addCircleThreePoints"
    /\ call.ret = NULL
    /\ ~MissingParent(state, call)
    /\ Cardinality(Range(call.args)) = 3

\* the live entities reachable from id through childrenIds, id included
RECURSIVE Reach(_, _, _)
Reach(st, ph, S) ==
    LET T == S \cup {c \in LiveIds(st) :
                        \E e \in S : c \in Range(ChildrenIdsOf(st, ph, e))}
    IN  IF T = S THEN S ELSE Reach(st, ph, T)

Descendants(st, ph, id) == Reach(st, ph, {id} \cap LiveIds(st))

\* the fields of a point that deleteEntity may not change
PointCore(pt) == [id |-> pt.id, x |-> pt.x, y |-> pt.y, label |-> pt.label,
                  isFloating |-> pt.isFloating]

SegmentCore(sg) == [sg EXCEPT !.childrenIds = <<>>]

CircleCore(ci) == [ci EXCEPT !.childrenIds = <<>>]

\* C10: deleteEntity(id) removes exactly id and the entities reachable from it
\* through childrenIds; every other entity stays with its coordinates and
\* defining fields; on an id that is not in the store nothing changes, and
\* after the call id is not in the store.
C10_DeleteExact ==
    [][call'.op = "deleteEntity" =>
          LET id == call'.args[1]
              D == Descendants(state, pheap, id)
          IN  /\ DOMAIN state'.points = (DOMAIN state.points) \ D
              /\ DOMAIN state'.segments = (DOMAIN state.segments) \ D
              /\ DOMAIN state'.circles = (DOMAIN state.circles) \ D
              /\ \A p \in DOMAIN state'.points :
                    PointCore(pheap'[state'.points[p]])
                        = PointCore(pheap[state.points[p]])
              /\ \A s \in DOMAIN state'.segments :
                    SegmentCore(state'.segments[s]) = SegmentCore(state.segments[s])
              /\ \A c \in DOMAIN state'.circles :
                    CircleCore(state'.circles[c]) = CircleCore(state.circles[c])
              /\ UNCHANGED <<idCounter, labelCounter>>
              /\ id \notin LiveIds(state) => UNCHANGED storeVars
              /\ id \notin LiveIds(state')]_vars

\* deleteEntity has just removed an entity of the store, another entity is
\* gone as well and a third one is still there
C10_Witness ==
    /\ call.op = "deleteEntity"
    /\ call.args[1] \in (1..idCounter) \ LiveIds(state)
    /\ \E other \in (1..idCounter) \ LiveIds(state) : other # call.args[1]
    /\ LiveIds(state) # {}

-----------------------------------------------------------------------------
(* Properties of the solver *)

Returned(op) == frame.pc = "done" /\ call.op = op

\* C2: when validateConstraint has returned, whether its trial solve
\* converged or not, the caller's state is what it was at the call: the same
\* containers, the same constraints list with the candidate not appended,
\* and every Point and Variable object with the fields it had.
C2_ValidateLeavesCaller ==
    Returned("validateConstraint") =>
        /\ state = entry.state
        /\ pheap = entry.pheap
        /\ vheap = entry.vheap

\* validateConstraint has accepted "C on AB" for the floating point C, which
\* the trial solve had to move from (1,2) onto the segment
C2_Witness ==
    /\ Returned("validateConstraint")
    /\ call.ret.valid
    /\ call.args[1].type = "POINT_ON_SEGMENT"
    /\ call.args[1].targetId \in DOMAIN state.segments
    /\ state.constraints = <<>>
    /\ pheap[state.points[5]].isFloating
    /\ pheap[state.points[5]].y = 2

\* C3: when solve has returned, with success or not, the state differs from
\* the state at the call at most in the x and y of points that are floating
\* and in the value of variables that are determined: the containers, the
\* constraints, and every other field of every object are unchanged.
C3_SolveFrame ==
    Returned("solve") =>
        /\ state = entry.state
        /\ DOMAIN pheap = DOMAIN entry.pheap
        /\ DOMAIN vheap = DOMAIN entry.vheap
        /\ \A r \in DOMAIN pheap :
              /\ [pheap[r] EXCEPT !.x = entry.pheap[r].x, !.y = entry.pheap[r].y]
                     = entry.pheap[r]
              /\ ~entry.pheap[r].isFloating => pheap[r] = entry.pheap[r]
        /\ \A r \in DOMAIN vheap :
              /\ [vheap[r] EXCEPT !.value = entry.vheap[r].value] = entry.vheap[r]
              /\ ~entry.vheap[r].isDetermined => vheap[r] = entry.vheap[r]

\* solve has returned after moving a floating point, in a state that has a
\* constraint on a point that is not floating as well
C3_Witness ==
    /\ Returned("solve")
    /\ \E r \in DOMAIN pheap : pheap[r] # entry.pheap[r]
    /\ \E r \in DOMAIN pheap : ~pheap[r].isFloating
    /\ \E r \in DOMAIN vheap : ~vheap[r].isDetermined

\* C4: when solve has returned, success is true exactly when the reported
\* finalError is below CONVERGENCE_THRESHOLD, and finalError is the norm of
\* the residuals of the state solve leaves behind.
C4_SuccessIffBelowThreshold ==
    Returned("solve") =>
        /\ call.ret.success <=> BelowThreshold(call.ret.finalError)
        /\ call.ret.finalError = vecNorm(computeResiduals(state, pheap, vheap))

\* C5: solve terminates: its loop makes at most MAX_ITERATIONS iterations,
\* and no pass through a loop of the residual computation leaves solve at
\* the test of that loop with the values it had at the test before (solve
\* is deterministic, so from there on it would repeat that pass for ever).
C5_SolveTerminates ==
    [][/\ frame'.iter <= MAX_ITERATIONS
       /\ frame.pc = "wrapBody" => frame'.diff # frame.diff]_vars

\* chr(65 + k mod 26) followed by floor(k / 26) when that is not zero
KthLabel(k) ==
    <<65 + (k % 26)>> \o (IF k \div 26 # 0 THEN Decimal(k \div 26) ELSE <<>>)

LabelsOf(st, ph, ids) == {LabelText(ph[st.points[id]].label) : id \in ids}

Containers ==
    {"points", "segments", "circles", "arcs", "variables", "constraints"}

\* createInitialState has returned and nothing was called since
Fresh == call.op = "createInitialState"

\* C19: the state createInitialState returns has every container, each of
\* them empty, activeTool SELECT, zoom 1 and offset (0,0).
C19_InitialState ==
    Fresh =>
        /\ Containers \subseteq DOMAIN state
        /\ \A c \in Containers \cap DOMAIN state : state[c] = <<>>
        /\ state.activeTool = "SELECT"
        /\ state.zoom = 1
        /\ state.offset = [x |-> 0, y |-> 0]

\* the norm of the residuals of the state solve works on, with the Point
\* and Variable objects of the heaps ph, vh
NormOn(ph, vh) == vecNorm(computeResiduals(frame.st, ph, vh))

\* C12: within one call of solve the norm of the residuals never increases:
\* no step of solve before its return leaves the objects with a larger norm
\* than they had, and the finalError solve returns is the norm its last step
\* started from or a smaller one.  (A state whose residuals cannot be
\* computed, C5, has no norm.)
C12_NormNeverIncreases ==
    [][(/\ frame.pc \in {"start", "loop"}
        /\ frame.st.constraints # <<>>
        /\ StuckDiff(frame.st, pheap, vheap) = {}
        /\ frame'.pc \in {"loop", "done"})
       => /\ frame'.pc = "loop" => NormOn(pheap', vheap') <= NormOn(pheap, vheap)
          /\ (frame'.pc = "done" /\ call.op = "solve") =>
                 /\ call'.ret.finalError <= NormOn(pheap, vheap)
                 /\ call'.ret.finalError = NormOn(pheap', vheap')]_vars

\* solve has returned after steps it kept: the error it reports is smaller
\* than the norm of the residuals of the state it was called on
C12_Witness ==
    /\ Returned("solve")
    /\ state.constraints # <<>>
    /\ call.ret.iterations > 0
    /\ call.ret.finalError
           < vecNorm(computeResiduals(entry.state, entry.pheap, entry.vheap))

\* the nodes of an AST
RECURSIVE Nodes(_)
Nodes(node) ==
    IF node.type = "binary"
    THEN {node} \cup Nodes(node.left) \cup Nodes(node.right)
    ELSE {node}

\* a variable of this name is absent from the map or has the value null
Unresolved(name) ==
    \/ name \notin DOMAIN state.variables
    \/ vheap[state.variables[name]].value = NoValue

Applied(op) == call.op = op /\ ~call.args[1].number

\* C14: evaluateExpression returns null or a number, and never throws; it
\* returns null exactly when the string fails to lex or to parse, or some
\* variable named anywhere in it is absent from the map or has the value
\* null, or the right operand of some division is 0
C14_EvaluateFolds ==
    Applied("evaluateExpression") =>
        /\ call.ret = Null \/ call.ret = Num(call.ret.value)
        /\ call.ret.value \in -Huge .. Huge
        /\ With(tokenize(call.args[1].text), LAMBDA t :
               call.ret.null <=>
                   \/ t.thrown
                   \/ parse(t.tokens).thrown
                   \/ \E tok \in Range(t.tokens) :
                          tok.type = "VARIABLE" /\ Unresolved(tok.value)
                   \/ \E n \in Nodes(parse(t.tokens).node) :
                          /\ n.type = "binary"
                          /\ n.op = "/"
                          /\ evaluateAST(n.right, state.variables, vheap)
                                 = Num(0))

\* z * (q + y) with z = 0: null, for q is absent
C14_Witness ==
    /\ Applied("evaluateExpression")
    /\ call.args[1].text
           = <<"z", " ", "*", " ", "(", "q", " ", "+", " ", "y", ")">>
    /\ vheap[state.variables[<<"z">>]].value = 0
    /\ call.ret = Null

\* The grammar of the parser, read as a set of derivations: the tokens
\* i .. j of toks derive prim, pow, mul, add.
RECURSIVE DerivesAdd(_, _, _)
RECURSIVE DerivesMul(_, _, _)
RECURSIVE DerivesPow(_, _, _)
RECURSIVE DerivesPrim(_, _, _)

\* primary = NUMBER | VARIABLE | '(' expr ')'
DerivesPrim(toks, i, j) ==
    \/ i = j /\ toks[i].type \in {"NUMBER", "VARIABLE"}
    \/ /\ i + 1 < j
       /\ toks[i].type = "LPAREN"
       /\ toks[j].type = "RPAREN"
       /\ DerivesAdd(toks, i + 1, j - 1)

\* powExpr = primary ('^' powExpr)?
DerivesPow(toks, i, j) ==
    \/ DerivesPrim(toks, i, j)
    \/ \E k \in (i + 1) .. (j - 1) :
           /\ IsOperator(toks[k], {"^"})
           /\ DerivesPrim(toks, i, k - 1)
           /\ DerivesPow(toks, k + 1, j)

\* mulExpr = powExpr (('*' | '/') powExpr)*
DerivesMul(toks, i, j) ==
    \/ DerivesPow(toks, i, j)
    \/ \E k \in (i + 1) .. (j - 1) :
           /\ IsOperator(toks[k], {"*", "/"})
           /\ DerivesPow(toks, k + 1, j)
           /\ DerivesMul(toks, i, k - 1)

\* addExpr = mulExpr (('+' | '-') mulExpr)*
DerivesAdd(toks, i, j) ==
    \/ DerivesMul(toks, i, j)
    \/ \E k \in (i + 1) .. (j - 1) :
           /\ IsOperator(toks[k], {"+", "-"})
           /\ DerivesMul(toks, k + 1, j)
           /\ DerivesAdd(toks, i, k - 1)

\* the whole string is an expr followed by the end of input
Grammatical(text) ==
    With(tokenize(text), LAMBDA t :
        /\ ~t.thrown
        /\ DerivesAdd(t.tokens, 1, Len(t.tokens) - 1))

\* an unknown character, a doubled operator, a leading operator, unmatched
\* parentheses, trailing tokens, the empty string
Malformed ==
    {<<"x", "#">>, <<"x", " ", "+", "+", " ", "2">>, <<"-", "x">>,
     <<"+", "2">>, <<"(", "x", " ", "+", " ", "3">>, <<"(", "x">>,
     <<"x", ")">>, <<"x", " ", "2">>, <<"(", ")">>, <<>>}

\* C15: validateExpression returns true exactly when the tokens of the
\* string, up to the end of input, are derivable from the grammar, and
\* false for the malformed strings
C15_ValidateIffGrammar ==
    Applied("validateExpression") =>
        /\ call.ret.valid \in BOOLEAN
        /\ call.ret.valid <=> Grammatical(call.args[1].text)
        /\ call.args[1].text \in Malformed => ~call.ret.valid

\* (x + 3) * 2 is valid, and every malformed string is among the inputs
C15_Witness ==
    /\ Applied("validateExpression")
    /\ call.args[1].text
           = <<"(", "x", " ", "+", " ", "3", ")", " ", "*", " ", "2">>
    /\ call.ret.valid
    /\ Malformed \subseteq ExprInputs

\* The reading of an expression over numbers by precedence: tokens i .. j
\* are split at the last '+' or '-' outside parentheses, else at the last
\* '*' or '/', else at the first '^'; what has no operator outside
\* parentheses is a numeral or a parenthesised expression.

\* the parentheses open before token k, counted from token i
RECURSIVE Depth(_, _, _)
Depth(toks, i, k) ==
    IF k <= i THEN 0
    ELSE Depth(toks, i, k - 1)
             + (IF toks[k - 1].type = "LPAREN" THEN 1
                ELSE IF toks[k - 1].type = "RPAREN" THEN -1 ELSE 0)

Outer(toks, i, j, ops) ==
    {k \in i .. j : IsOperator(toks[k], ops) /\ Depth(toks, i, k) = 0}

Last(S) == CHOOSE k \in S : \A m \in S : m <= k

First(S) == CHOOSE k \in S : \A m \in S : k <= m

Arith(op, left, right) ==
    IF left.null \/ right.null THEN Null
    ELSE IF op = "+" THEN Num(FAdd(left.value, right.value))
    ELSE IF op = "-" THEN Num(FSub(left.value, right.value))
    ELSE IF op = "*" THEN Num(FMul(left.value, right.value))
    ELSE IF op = "/" THEN (IF right.value = 0 THEN Null
                           ELSE Num(FDiv(left.value, right.value)))
    ELSE Num(FPow(left.value, right.value))

RECURSIVE Reading(_, _, _)
Reading(toks, i, j) ==
    LET split(k) == Arith(toks[k].value[1], Reading(toks, i, k - 1),
                          Reading(toks, k + 1, j))
    IN  IF Outer(toks, i, j, {"+", "-"}) # {}
        THEN split(Last(Outer(toks, i, j, {"+", "-"})))
        ELSE IF Outer(toks, i, j, {"*", "/"}) # {}
        THEN split(Last(Outer(toks, i, j, {"*", "/"})))
        ELSE IF Outer(toks, i, j, {"^"}) # {}
        THEN split(First(Outer(toks, i, j, {"^"})))
        ELSE IF toks[i].type = "LPAREN" THEN Reading(toks, i + 1, j - 1)
        ELSE Num(parseFloat(toks[i].value))

\* a grammatical expression without variables
OverNumbers(text) ==
    /\ Grammatical(text)
    /\ \A tok \in Range(tokenize(text).tokens) : tok.type # "VARIABLE"

ExampleValues ==
    {<<(<<"2", "^", "3", "^", "2">>), 512>>,
     <<(<<"2", "+", "3", "*", "4">>), 14>>,
     <<(<<"2", "*", "3", "^", "2">>), 18>>,
     <<(<<"1", "0", "-", "4", "-", "3">>), 3>>}

\* C16: for an expression over numbers, evaluateExpression returns the value
\* of the expression read with '^' above '*' and '/' above '+' and '-',
\* '^' grouping to the right and the others to the left, parentheses first:
\* 2^3^2 = 512, 2+3*4 = 14, 2*3^2 = 18, 10-4-3 = 3
C16_Precedence ==
    (Applied("evaluateExpression") /\ OverNumbers(call.args[1].text)) =>
        /\ With(tokenize(call.args[1].text).tokens, LAMBDA toks :
               call.ret = Reading(toks, 1, Len(toks) - 1))
        /\ \A e \in ExampleValues :
               call.args[1].text = e[1] => call.ret = Num(e[2])

\* 2^3^2 has been evaluated to 512, and every example is among the inputs
C16_Witness ==
    /\ Applied("evaluateExpression")
    /\ call.args[1].text = <<"2", "^", "3", "^", "2">>
    /\ call.ret = Num(512)
    /\ {e[1] : e \in ExampleValues} \subseteq ExprInputs

\* The identifiers of a string, read off its characters: an identifier
\* starts at a letter that does not continue a name, and runs over the
\* letters, digits and underscores that follow.

\* the index where the run of name characters that ends before i starts
RECURSIVE RunStart(_, _)
RunStart(text, i) ==
    IF i > 1 /\ text[i - 1] \in NameChars THEN RunStart(text, i - 1) ELSE i

IdentifierStarts(text) ==
    {i \in DOMAIN text :
        /\ text[i] \in LetterChars
        /\ \A m \in RunStart(text, i) .. (i - 1) : text[m] \notin LetterChars}

Identifiers(text) ==
    [k \in 1 .. Cardinality(IdentifierStarts(text)) |->
        LET i == CHOOSE n \in IdentifierStarts(text) :
                     Cardinality({m \in IdentifierStarts(text) : m < n}) = k - 1
        IN  SubSeq(text, i, ScanWhile(text, i, NameChars) - 1)]

KnownChars ==
    SpaceChars \cup NumberChars \cup NameChars \cup OperatorChars
        \cup {"(", ")"}

\* C17: extractVariableNames returns the identifiers of the string in the
\* order in which they occur, one entry per occurrence, and the empty
\* sequence for a number and for a string with an unknown character
C17_NamesInOrder ==
    call.op = "extractVariableNames" =>
        call.ret.names =
            IF call.args[1].number THEN <<>>
            ELSE IF Range(call.args[1].text) \subseteq KnownChars
            THEN Identifiers(call.args[1].text)
            ELSE <<>>

\* y2 *x/y2-q gives y2, x, y2, q
C17_Witness ==
    /\ Applied("extractVariableNames")
    /\ call.args[1].text = <<"y", "2", " ", "*", "x", "/", "y", "2", "-", "q">>
    /\ call.ret.names = <<(<<"y", "2">>), (<<"x">>), (<<"y", "2">>), (<<"q">>)>>

\* the store holds the two diagonals of the square and nothing else but
\* their four endpoints
Diagonals ==
    /\ DOMAIN state.points = DOMAIN CrossCoords
    /\ state.circles = <<>>
    /\ {<<state.segments[id].p1, state.segments[id].p2>> :
            id \in DOMAIN state.segments} = {<<1, 2>>, <<3, 4>>}

\* C11: a call of findAllIntersections that directly follows another one
\* returns the empty list and leaves the points as they are; called on the
\* two diagonals (0,0)-(10,10) and (0,10)-(10,0) alone it creates one point,
\* at (5,5)
C11_Idempotent ==
    [][call'.op = "findAllIntersections" =>
          /\ call.op = "findAllIntersections" =>
                 /\ call'.ret = <<>>
                 /\ state'.points = state.points
                 /\ pheap' = pheap
          /\ Diagonals =>
                 /\ Len(call'.ret) = 1
                 /\ DOMAIN state'.points = DOMAIN state.points \cup Range(call'.ret)
                 /\ \A id \in Range(call'.ret) :
                        pheap'[state'.points[id]].x = 5
                        /\ pheap'[state'.points[id]].y = 5]_vars

\* the positions around the sketch where the floating point is looked for
PosedWindow == (-6 .. 6) \X (-6 .. 6)

\* the heap with the floating point moved to pos
FloatingAt(ph, pos) ==
    [r \in DOMAIN ph |->
        IF ph[r].isFloating THEN [ph[r] EXCEPT !.x = pos[1], !.y = pos[2]]
        ELSE ph[r]]

\* the positions of the floating point that meet every constraint
Solutions ==
    {pos \in PosedWindow :
        BelowThreshold(vecNorm(computeResiduals(state, FloatingAt(pheap, pos),
                                                vheap)))}

\* DISTANCE and POINT_ON_* constraints with one solution
WellPosed ==
    /\ state.constraints # <<>>
    /\ \A j \in DOMAIN state.constraints :
           state.constraints[j].type \in {"DISTANCE", "POINT_ON_SEGMENT",
                                          "POINT_ON_CIRCLE", "POINT_ON_ARC"}
    /\ Cardinality(Solutions) = 1

RECURSIVE Dot(_, _)
Dot(a, b) ==
    IF a = <<>> THEN 0
    ELSE FAdd(FMul(Head(a), Head(b)), Dot(Tail(a), Tail(b)))

\* matVecMulTranspose(J, residuals): J holds one row per parameter
matVecMulTranspose(J, v) == [i \in DOMAIN J |-> Dot(J[i], v)]

\* Jtr is zero: the linear system has a zero right-hand side, delta is zero
\* and the trial state is the current one
Stationary ==
    \A g \in Range(matVecMulTranspose(
                       computeJacobian(frame.st, pheap, vheap, frame.params),
                       computeResiduals(frame.st, pheap, vheap))) : g = 0

\* C13: on a well-posed sketch solve returns success and leaves the norm of
\* the residuals below the threshold: when it returns success the norm is
\* below the threshold, and while it is in its loop with a norm that is not,
\* Jtr is not zero (where it is, the trial of this and of every later
\* iteration has the norm of the current state and is rejected, and solve
\* returns success = false after MAX_ITERATIONS iterations)
C13_Converges ==
    WellPosed =>
        /\ (Returned("solve") /\ call.ret.success) =>
               BelowThreshold(vecNorm(computeResiduals(state, pheap, vheap)))
        /\ (/\ frame.pc = "loop"
            /\ frame.iter < MAX_ITERATIONS
            /\ ~BelowThreshold(NormOn(pheap, vheap))) => ~Stationary

\* C20: when solve has returned, iterations is between 0 and
\* MAX_ITERATIONS, and it is MAX_ITERATIONS whenever success is false.
C20_IterationsOnFailure ==
    Returned("solve") =>
        /\ call.ret.iterations \in 0..MAX_ITERATIONS
        /\ ~call.ret.success => call.ret.iterations = MAX_ITERATIONS

-----------------------------------------------------------------------------
(* Properties of the paths that create a constraint *)

\* validateConstraint has returned to the handler
Validated == call.op = "validateConstraint" /\ frame.pc = "done"

\* C21: addConstraint(newState, c) runs only in the step after
\* validateConstraint(newState, c) returned true for the c and the state of
\* this handler, and solve(newState) is entered in the same step; the
\* constraints of the published state change only when that solve has
\* returned, by the c appended; and when validateConstraint returned false
\* the c is not in the state the handler leaves.
C21_AppendAfterTrial ==
    [][/\ (call'.op = "solve" /\ call.op # "solve") =>
              /\ Validated
              /\ call.ret = [valid |-> TRUE]
              /\ call.newState = state
              /\ call'.args = call.args
              /\ call'.newState.constraints =
                     Push(state.constraints, call.args[1])
              /\ frame' = Enter(call'.newState)
       /\ (call.op = "solve" /\ call'.op = "solve") =>
              call'.newState = call.newState
       /\ state'.constraints # state.constraints =>
              /\ Returned("solve")
              /\ state'.constraints = Push(state.constraints, call.args[1])
       /\ (Validated /\ call.ret = [valid |-> FALSE]) =>
              /\ call'.op \in {"setState", "alert"}
              /\ \A c \in Range(state'.constraints) : c.id # call.args[1].id
      ]_vars

\* a constraint was kept, solved for and published
C21_Witness ==
    /\ call.op = "setState"
    /\ call.args # <<>>
    /\ state.constraints = <<call.args[1]>>

\* C22: when validateConstraint has returned false, the handler leaves the
\* constraints list and the isFloating flag of every point as they were
\* before the attempt.
C22_RejectedLeavesNoTrace ==
    [][(Validated /\ call.ret = [valid |-> FALSE]) =>
          /\ state'.constraints = entry.state.constraints
          /\ \A id \in DOMAIN entry.state.points :
                 pheap'[state'.points[id]].isFloating =
                     entry.pheap[entry.state.points[id]].isFloating]_vars

-----------------------------------------------------------------------------
(* Properties of computeResidual and applyParams on stale references *)

\* the circle, its center or a point it is drawn through is not in the store
CircleMissing(st, circleId) ==
    \/ circleId \notin DOMAIN st.circles
    \/ st.circles[circleId].centerId \notin DOMAIN st.points
    \/ \E id \in Range(st.circles[circleId].pointIds) : id \notin DOMAIN st.points

\* the constraint cannot be evaluated: something it refers to is not in the
\* store, or its expression is absent or has no value
Unevaluable(c, st, vh) ==
    \/ \E id \in Range(c.pointIds) : id \notin DOMAIN st.points
    \/ /\ c.type \in {"DISTANCE", "ANGLE", "EQUATION"}
       /\ \/ c.expression = <<>>
          \/ evaluateExpression(c.expression, st.variables, vh).null
    \/ /\ c.type = "POINT_ON_SEGMENT"
       /\ \/ c.targetId \notin DOMAIN st.segments
          \/ st.segments[c.targetId].p1 \notin DOMAIN st.points
          \/ st.segments[c.targetId].p2 \notin DOMAIN st.points
    \/ c.type = "POINT_ON_CIRCLE" /\ CircleMissing(st, c.targetId)
    \/ /\ c.type = "POINT_ON_ARC"
       /\ \/ c.targetId \notin DOMAIN st.arcs
          \/ CircleMissing(st, st.arcs[c.targetId].circleId)
          \/ st.arcs[c.targetId].startId \notin DOMAIN st.points
          \/ st.arcs[c.targetId].endId \notin DOMAIN st.points

\* the entries of a template that name a point (a variable) of the store
LivePointCoords(st, params) ==
    {e \in Range(params.pointCoords) : e.pointId \in DOMAIN st.points}

LiveVariableValues(st, params) ==
    {e \in Range(params.variableValues) : e.name \in DOMAIN st.variables}

\* C23: computeResidual returns 0 for a constraint that cannot be evaluated,
\* of whatever kind; applyParams returns, having written the entries of the
\* template whose point or variable is in the store and nothing else.
C23_StaleIsZero ==
    [][/\ call'.op = "computeResidual" =>
              (Unevaluable(call'.args[1], state, vheap) => call'.ret = 0)
       /\ call'.op = "applyParams" =>
              /\ state' = state
              /\ DOMAIN pheap' = DOMAIN pheap
              /\ DOMAIN vheap' = DOMAIN vheap
              /\ \A e \in LivePointCoords(state, call'.args[1]) :
                     IF e.coord = "x"
                     THEN pheap'[state.points[e.pointId]].x = e.value
                     ELSE pheap'[state.points[e.pointId]].y = e.value
              /\ \A e \in LiveVariableValues(state, call'.args[1]) :
                     vheap'[state.variables[e.name]].value = e.value
              /\ \A r \in DOMAIN pheap :
                     /\ [pheap'[r] EXCEPT !.x = 0, !.y = 0]
                            = [pheap[r] EXCEPT !.x = 0, !.y = 0]
                     /\ (\A e \in LivePointCoords(state, call'.args[1]) :
                             e.pointId # pheap[r].id) => pheap'[r] = pheap[r]
              /\ \A r \in DOMAIN vheap :
                     /\ [vheap'[r] EXCEPT !.value = 0]
                            = [vheap[r] EXCEPT !.value = 0]
                     /\ (\A e \in LiveVariableValues(state, call'.args[1]) :
                             e.name # vheap[r].name) => vheap'[r] = vheap[r]
      ]_vars

\* computeResidual has returned 0 for a constraint on a point that was
\* deleted, in a store whose template names that point
C23_Witness ==
    /\ call.op = "computeResidual"
    /\ call.ret = 0
    /\ call.args[1].type = "POINT_ON_SEGMENT"
    /\ 6 \notin DOMAIN state.points
    /\ 3 \in DOMAIN state.segments

-----------------------------------------------------------------------------
(* Properties of the circles *)

\* the circle as stored: the point centerId and the radius
Stored(circle) ==
    [null |-> FALSE, cx |-> pheap[state.points[circle.centerId]].x,
     cy |-> pheap[state.points[circle.centerId]].y, r |-> circle.radius]

\* C24: for every circle of the store, whatever the solver has moved, the
\* circle the solver's getCircleCenterRadius returns and the circle the
\* intersection code's getCircleCenterRadius returns are both the stored
\* one: the point centerId and the stored radius.
C24_CircleFrozen ==
    \A id \in DOMAIN state.circles :
        /\ getCircleCenterRadius(state, pheap, id) = Stored(state.circles[id])
        /\ circleCenterRadius(World, state.circles[id])
               = <<[cx |-> Stored(state.circles[id]).cx,
                    cy |-> Stored(state.circles[id]).cy,
                    r |-> Stored(state.circles[id]).r]>>

-----------------------------------------------------------------------------
(* Properties of the POINT_ON_ARC residual *)

\* the angle of the direction from the center to the point as the angle of
\* a segment is taken: atan2(-(y2 - y1), x2 - x1), in degrees
PolarAngle(circleData, pt) ==
    Atan2Deg(-(pt.y - circleData.cy), pt.x - circleData.cx)

\* going counter-clockwise from the angle s, a comes no later than e
OnCcwSpan(a, s, e) == Norm360(a - s) <= Norm360(e - s)

\* the shorter way round between two angles
AngularDistance(a, b) == Min(Norm360(a - b), 360 - Norm360(a - b))

ScreenPolarAngle(circleData, pt) ==
    Atan2Deg(pt.y - circleData.cy, pt.x - circleData.cx)

-----------------------------------------------------------------------------
(* Properties of the ANGLE residual *)

\* computeResidual has returned the residual of an ANGLE constraint
AngleReturned ==
    /\ call.op = "computeResidual"
    /\ call.args[1].type = "ANGLE"
    /\ call.returns

\* angle(p1 -> p2) - target for the constraint of the call
SignedDifference == AngleDiff(call.args[1], state, pheap, vheap)

-----------------------------------------------------------------------------
(* Properties of the iterations of solve *)

\* the Point and Variable objects of the heaps ph, vh hold the parameters
StoreHolds(params, ph, vh) ==
    applyParams(frame.st, ph, vh, params) = [pheap |-> ph, vheap |-> vh]

\* the iteration kept its trial step: lambda is multiplied by LAMBDA_DOWN,
\* the norm has gone down and the objects hold the new parameters
Accepted ==
    /\ frame'.lambda = frame.lambda + LAMBDA_DOWN
    /\ NormOn(pheap', vheap') < NormOn(pheap, vheap)
    /\ StoreHolds(frame'.params, pheap', vheap')

\* the iteration dropped its trial step: lambda is multiplied by LAMBDA_UP,
\* the parameters stay and the objects are as before the step
Rejected ==
    /\ frame'.lambda = frame.lambda + LAMBDA_UP
    /\ frame'.params = frame.params
    /\ pheap' = pheap
    /\ vheap' = vheap

\* lambda = LAMBDA_INITIAL * LAMBDA_DOWN^a * LAMBDA_UP^r after a accepted and
\* r rejected steps, a + r being the iterations done
LambdaAfter ==
    \E a \in 0 .. frame.iter :
        frame.lambda = LAMBDA_INITIAL + a * LAMBDA_DOWN
                           + (frame.iter - a) * LAMBDA_UP

\* C27: an iteration of solve that goes on to the next one either accepts
\* its trial step (the norm is strictly smaller, the trial parameters become
\* the current ones, lambda is multiplied by 0.1) or rejects it (the objects
\* are put back, lambda is multiplied by 10), never both; so lambda is
\* 0.01 * 0.1^a * 10^r after a accepted and r rejected steps, and at the
\* start of every iteration the objects hold the current parameters.
C27_AcceptOrReject ==
    /\ [](frame.pc = "loop" =>
              /\ LambdaAfter
              /\ StoreHolds(frame.params, pheap, vheap))
    /\ [][(frame.pc = "loop" /\ frame'.pc = "loop") =>
              /\ frame'.iter = frame.iter + 1
              /\ Accepted \/ Rejected
              /\ ~(Accepted /\ Rejected)]_vars

\* two iterations done, one step accepted and one rejected
C27_Witness ==
    /\ frame.pc = "loop"
    /\ frame.iter = 2
    /\ frame.lambda = LAMBDA_INITIAL
    /\ call.op = "solve"

-----------------------------------------------------------------------------
(* Properties of the intersection pass *)

\* the test of pointExistsAt between two points
WithinTolerance(p, q) ==
    /\ DLt(DMul(DAbs(DSub(p.x, q.x)), Milli), EPSILON)
    /\ DLt(DMul(DAbs(DSub(p.y, q.y)), Milli), EPSILON)

\* the store after the step
WorldAfter == [idCounter |-> idCounter', labelCounter |-> labelCounter',
               pheap |-> pheap', st |-> state']

\* C28: findAllIntersections adds a point for a candidate exactly when no
\* point of the store, old or added earlier in the pass, is within the
\* tolerance of it: the points grow by exactly the points returned, each of
\* them lies on a candidate and has no other point within tolerance, and
\* after the pass every candidate has a point within tolerance.
C28_AddsWhenAbsent ==
    [][call'.op = "findAllIntersections" =>
          LET candidates == Range(Intersections(World))
              created == Range(call'.ret)
          IN  /\ DOMAIN state'.points = DOMAIN state.points \cup created
              /\ created \cap DOMAIN state.points = {}
              /\ Cardinality(created) = Len(call'.ret)
              /\ \A id \in created :
                     [x |-> PointOf(WorldAfter, id).x,
                      y |-> PointOf(WorldAfter, id).y] \in candidates
              /\ \A id \in created, other \in DOMAIN state'.points :
                     other # id =>
                         ~WithinTolerance(PointOf(WorldAfter, id),
                                          PointOf(WorldAfter, other))
              /\ \A c \in candidates : pointExistsAt(WorldAfter, c.x, c.y)]_vars

-----------------------------------------------------------------------------
(* Properties of the dependency graph *)

Max(S) == CHOOSE m \in S : \A n \in S : n <= m

\* the deepest nesting of calls that deleteEntity(state, id) gets to, each
\* call of a live entity calling deleteEntity on every id of its childrenIds;
\* counted up to fuel
RECURSIVE Nesting(_, _, _, _)
Nesting(st, ph, id, fuel) ==
    IF fuel = 0 THEN 0
    ELSE IF id \notin LiveIds(st) THEN 1
    ELSE 1 + Max({0} \cup {Nesting(st, ph, c, fuel - 1) :
                              c \in Range(ChildrenIdsOf(st, ph, id))})

\* C29: the dependency graph is acyclic: every id in the childrenIds of an
\* entity was generated after the entity's own id, far endpoints and circle
\* centers included, so no entity is among its own descendants and the calls
\* of deleteEntity nest no deeper than the number of entities.
C29_ChildrenAreYounger ==
    \A id \in LiveIds(state) :
        /\ \A c \in Range(ChildrenIdsOf(state, pheap, id)) :
               id < c /\ c <= idCounter
        /\ id \notin Reach(state, pheap,
                           Range(ChildrenIdsOf(state, pheap, id))
                               \cap LiveIds(state))
        /\ Nesting(state, pheap, id, Cardinality(LiveIds(state)) + 2)
               <= Cardinality(LiveIds(state)) + 1

\* a segment drawn at an angle to another one is in the store with the far
\* endpoint that was created for it, and something has been deleted
C29_Witness ==
    /\ call.op = "deleteEntity"
    /\ \E id \in DOMAIN state.segments :
           /\ state.segments[id].type = "REL_ANGLE"
           /\ state.segments[id].p2 \in DOMAIN state.points
           /\ id \in Range(ChildrenIdsOf(state, pheap, state.segments[id].p2))
           /\ id \in Range(ChildrenIdsOf(state, pheap,
                                         state.segments[id].refSegmentId))

-----------------------------------------------------------------------------
(* Properties of the points that findAllIntersections creates *)

\* the points in the store that findAllIntersections created
Derived == {id \in DOMAIN state.points : id > Len(CrossCoords)}

\* C30: a point created by findAllIntersections is outside the dependency
\* graph: its childrenIds are empty and its id is in the childrenIds of no
\* entity, so deleteEntity on any other entity, the intersecting segments and
\* circles and their defining points among them, leaves it in the store as
\* it is.
C30_DerivedStay ==
    /\ [](\A id \in Derived :
              /\ pheap[state.points[id]].childrenIds = <<>>
              /\ \A e \in LiveIds(state) :
                     id \notin Range(ChildrenIdsOf(state, pheap, e)))
    /\ [][call'.op = "findAllIntersections" =>
              Range(call'.ret) = DOMAIN state'.points \ DOMAIN state.points]_vars
    /\ [][call'.op = "deleteEntity" =>
              \A id \in Derived :
                  id # call'.args[1] =>
                      /\ id \in DOMAIN state'.points
                      /\ pheap'[state'.points[id]] = pheap[state.points[id]]]_vars

\* a segment or circle has just been deleted, a point that
\* findAllIntersections created is in the store, and nothing is left that it
\* could be the intersection of
C30_Witness ==
    /\ call.op = "deleteEntity"
    /\ call.args[1] \notin DOMAIN CrossCoords
    /\ Derived # {}
    /\ \A id \in Derived : call.args[1] < id
    /\ Shapes <= 1

====
